---- MODULE Spec2Model ----
(***************************************************************************)
(* OpenFlow dictation core: the session state machine (core/app_state.rs), *)
(* the speech pipeline's frame worker and finalization (core/pipeline.rs), *)
(* the ASR sample ring (asr/engine.rs) and the raw-input hotkey listener   *)
(* (core/hotkeys.rs).                                                      *)
(*                                                                         *)
(* Samples are counted in blocks of 1000: a sample rate of 16 kHz is 16,   *)
(* and the ring capacity 16_000 * 120 is 16 * 120.  A sample is modelled   *)
(* by its push index, so the order of the ring's contents is observable.   *)
(***************************************************************************)
EXTENDS Integers, Sequences, FiniteSets, TLC

VARIABLES
    \* ---- asr/engine.rs: AsrEngine called directly
    config,           \* AsrEngine.config (backend, model_dir) and the build's features
    asr_call,         \* ghost: the latest finalize_samples call and its result
    \* ---- output/injector.rs: paste_text and the system clipboard
    clipboard,        \* the system clipboard's contents
    paste_pc,         \* where paste_text is
    previous,         \* paste_text's `previous` snapshot
    chord_sent,       \* send_paste_chord returned Ok
    paste_result,     \* what paste_text returned
    observed,         \* ghost: wait_for_clipboard_equals saw the transcript
    clip_writes,      \* ghost: clipboard writes made by paste_text
    restored_over,    \* ghost: the contents restore_clipboard wrote over
    clip_changes,     \* ghost: clipboard changes made by others
    \* ---- core/app_state.rs: ASR warmup (the tracker's state is `warmup`)
    selected,         \* the AsrSelection of the frontend settings
    installed,        \* the selections whose model is installed
    asr_pipeline,     \* AppState.pipeline: its ASR config and recognizer
    asr_warmup,       \* AppState.asr_warmup: warmed/target selection, last_error
    asr_warmup_generation, \* AppState.asr_warmup_generation
    last_known_good,  \* SettingsManager: last known-good ASR selection
    warm_tasks,       \* the spawned warmup tasks, by generation
    kick,             \* where the kickoff_asr_warmup in progress is
    stale_write,      \* ghost: a task that was not the latest wrote the tracker
    \* ---- core/hotkeys.rs: register_shortcut, reregister, unregister
    current_hotkey,   \* CURRENT_HOTKEY
    evdev_listener,   \* linux_evdev::EVDEV_LISTENER: the listener thread it holds
    x11_listener,     \* linux_x11::X11_LISTENER: the listener thread it holds
    threads,          \* the listener threads that are running
    x11_display,      \* environment: an X11 session with a DISPLAY
    reg,              \* the register/reregister/unregister calls in progress
    reg_calls,        \* ghost: calls made
    spawned,          \* ghost: listener threads spawned
    overlap,          \* ghost: a listener was spawned while another was running
    \* ---- models/service.rs, models/manager.rs: the manifest and the worker
    assets,           \* ModelManager.assets, by asset name
    disk,             \* the manifest file
    save_failed,      \* ghost: the latest ModelManager::save returned Err
    queue,            \* the channel of ModelDownloadJob
    worker,           \* where worker_loop is, and the job it works on
    queued,           \* ghost: the asset names queued, in order
    begun,            \* ghost: the asset names of the jobs begun, in order
    finished,         \* ghost: the job's asset status when the worker moved on
    \* ---- models/manager.rs: ModelManager::new merging the built-in catalog
    loaded,           \* the assets load_manifest read
    merged,           \* the assets after register_defaults
    merged_twice,     \* the assets after register_defaults at the next launch
    merge_pc,         \* how far the merges have come
    \* ---- components checked on their own, one field each
    parts,            \* archive: download_archive on one asset's destination
                      \* primary: a manifest, an install and primary_asset
                      \* ct2: a CT2 model directory and the calls preparing it
                      \* hf: an HF-repo plan, the repository and its download
                      \* perf: EngineMetrics, the VAD hangover and the
                      \*   performance events emitted
                      \* vad: a VoiceActivityDetector and the clock
                      \* audio: the channels and the worker of AudioPipeline
                      \* settings: the stored settings and those in memory
                      \* trim: the ring, the trim state and the listening flag
                      \*   with the frame worker and a caller of set_listening
                      \* ensure: one warmup task in ensure_asr_assets_ready,
                      \*   the asset it needs and the download worker
                      \* throttle: the progress callback of one download
                      \* teardown: the references to one SpeechPipelineInner,
                      \*   its frame worker and its destructor
    \* ---- asr/engine.rs: AsrEngine
    buffer,           \* AsrEngine.buffer: the sample ring, oldest first
    pushed,           \* ghost: samples pushed since the last take/reset
    dropped,          \* ghost: sum of the drop counts returned since then
    push_calls,       \* ghost: push_samples calls since then
    \* ---- core/pipeline.rs: SpeechPipelineInner
    sample_rate,      \* AudioPipeline.sample_rate (fixed at construction)
    listening,        \* SpeechPipelineInner.listening
    vad_trim,         \* SpeechPipelineInner.vad_trim: VadTrimState
    last_activation,  \* VoiceActivityDetector.last_activation is Some
    output_mode,      \* SpeechPipelineInner.output_mode
    fin,              \* ghost: what the latest set_listening(false) did
    \* ---- core/app_state.rs: AppState
    session,          \* AppState.session
    hud_state,        \* AppState.hud_state
    warmup,           \* AppState.asr_warmup.state
    hotkey_mode,      \* settings.hotkey_mode
    tasks,            \* finalize tasks spawned by complete_session, by stage
    hud_session,      \* ghost: hud states emitted for the current session
    hud_during,       \* ghost: the session state when hud_state was last emitted
    caller,           \* the handler in progress on the hotkey/command thread
    \* ---- core/hotkeys.rs: linux_evdev::run_loop
    required_ctrl,    \* spec.modifiers.ctrl (alt, shift and meta are handled alike)
    keys_down,        \* environment: keys physically down, per keyboard
    devices,          \* DeviceManager.devices: the keyboards attached
    held_ctrl,        \* held_ctrl (held_alt, held_shift, held_meta alike)
    is_pressed,       \* the latch
    stopped,          \* the stop channel has a message: run_loop has returned
    edges,            \* ghost: edges handed to handle_hotkey_state
    owed,             \* ghost: a Pressed edge awaits its Released
    event             \* ghost: what the loop handled last

engine_vars == <<buffer, pushed, dropped, push_calls>>
pipeline_vars == <<sample_rate, listening, vad_trim, last_activation, output_mode, fin>>
session_vars ==
    <<session, hud_state, warmup, hotkey_mode, tasks, hud_session, hud_during, caller>>
hotkey_vars ==
    <<required_ctrl, keys_down, devices, held_ctrl, is_pressed, stopped, edges, owed, event>>
asr_vars == <<config, asr_call>>
\* The components modelled after the dictation core.
paste_vars ==
    <<clipboard, paste_pc, previous, chord_sent, paste_result, observed, clip_writes,
      restored_over, clip_changes>>
warm_vars ==
    <<selected, installed, asr_pipeline, asr_warmup, asr_warmup_generation,
      last_known_good, warm_tasks, kick, stale_write>>
\* The session variables other than the warmup state.
session_rest == <<session, hud_state, hotkey_mode, tasks, hud_session, hud_during, caller>>
reg_vars ==
    <<current_hotkey, evdev_listener, x11_listener, threads, x11_display, reg, reg_calls,
      spawned, overlap>>
\* The components modelled after the warmup.
model_vars == <<assets, disk, save_failed, queue, worker, queued, begun, finished>>
merge_vars == <<loaded, merged, merged_twice, merge_pc>>
late_vars == <<reg_vars, model_vars, merge_vars, parts>>
rest_vars == <<asr_vars, paste_vars, warm_vars, late_vars>>
core_vars == <<engine_vars, pipeline_vars, session_vars, hotkey_vars>>
vars == <<core_vars, rest_vars>>
\* Everything but `parts`.
main_vars == <<core_vars, asr_vars, paste_vars, warm_vars, reg_vars, model_vars, merge_vars>>

\* Option::None for the usize options of VadTrimState.
None == 0 - 1

Min(a, b) == IF a < b THEN a ELSE b
Max(a, b) == IF a > b THEN a ELSE b
\* usize::saturating_sub
SatSub(a, b) == IF a > b THEN a - b ELSE 0

\* ------------------------------------------------------------------------
\* Bounds of the model.
\* ------------------------------------------------------------------------
\* Calls of push_samples explored between two take/reset calls.
MaxPushes == 3
\* Frames the frame worker handles in one listening period.
MaxFrames == 4
\* Finalize tasks pending at once.
MaxTasks == 1
MaxSessionFrames == 1
\* Length of a recognized text.
MaxTextLen == 1
\* Edges recorded by the hotkey listener.
MaxEdges == 3
\* Clipboard changes made by the user or other applications during a paste.
MaxClipChanges == 2
\* Warmup tasks spawned (generations).
MaxGenerations == 2
\* Pipelines constructed.
MaxPipelines == 3
\* Calls of register_shortcut, reregister and unregister.
MaxRegCalls == 3
\* Download jobs queued.
MaxJobs == 2
\* Progress callbacks of one download.
MaxProgress == 1
\* Entries of a loaded manifest.
MaxManifest == 2
\* Assets of the manifest in which the primary asset is looked up.
MaxAssets == 2
\* Patterns in the include list and in the exclude list of an HF-repo plan.
MaxGlobs == 1
\* Files of a repository.
MaxSiblings == 2
\* Latency and CPU samples fed to the performance governor.
MaxSamples == 7
\* The time, in units of 100 ms, up to which the clock of the VAD runs.
MaxTime == 6
\* Audio frames emitted by the capture callback or the synthetic source.
MaxEmitted == 5
\* Migrations of the settings that are followed.
MaxPasses == 3
\* Calls of set_listening while the frame worker runs.
MaxListenCalls == 3

\* ------------------------------------------------------------------------
\* Program constants (sample counts in blocks of 1000 samples).
\* ------------------------------------------------------------------------
RATE_16K == 16
MAX_SECONDS == 120
VAD_MIN_SPEECH_MS == 350
VAD_PRE_ROLL_MS == 200
VAD_POST_ROLL_MS == 500
VAD_MAX_TRAILING_SILENCE_MS == 600

\* Rates a capture device can negotiate: 8 kHz, 16 kHz, 48 kHz.
SampleRates == {8, 16, 48}

\* Sizes of the slices handed to push_samples.
PushSizes == {1, 2, 959, 960, 1921}

\* ------------------------------------------------------------------------
\* asr/engine.rs: the sample ring
\* ------------------------------------------------------------------------
\* const MAX_SAMPLES: usize = 16_000 * 120
MAX_SAMPLES == RATE_16K * MAX_SECONDS

\* The n samples that follow `count` pushed samples, named by push index.
NewSamples(count, n) == [i \in 1..n |-> count + i]

\* truncate_if_needed: drain the overflow from the head, return its size.
truncate_if_needed(buf) ==
    IF Len(buf) > MAX_SAMPLES
    THEN LET overflow == Len(buf) - MAX_SAMPLES
         IN  [buffer |-> SubSeq(buf, overflow + 1, Len(buf)), dropped |-> overflow]
    ELSE [buffer |-> buf, dropped |-> 0]

\* AsrEngine::push_samples: extend, then truncate; returns the drop count.
push_samples(buf, samples) == truncate_if_needed(buf \o samples)

\* AsrEngine::take_samples: mem::take leaves an empty ring.
\* AsrEngine::reset: clear.
EmptyRing ==
    /\ buffer' = <<>>
    /\ pushed' = 0
    /\ dropped' = 0
    /\ push_calls' = 0

\* Values of the variables of a component a specification leaves alone.
EngineIdle ==
    /\ buffer = <<>>
    /\ pushed = 0
    /\ dropped = 0
    /\ push_calls = 0

NoTrim ==
    [total_samples |-> 0, buffer_start |-> 0, first_active |-> None,
     last_active |-> None, active_samples |-> 0]

NoFin == [ran |-> FALSE]

PipelineIdle ==
    /\ sample_rate = RATE_16K
    /\ listening = FALSE
    /\ vad_trim = NoTrim
    /\ last_activation = FALSE
    /\ output_mode = "Paste"
    /\ fin = NoFin

NoTasks == [finalize |-> 0, set_idle |-> 0, hud_idle |-> 0]
NoCaller == [pc |-> "none", op |-> "none", edge |-> "none", mode |-> "none",
             at |-> "none", prev |-> "none", then_complete |-> FALSE,
             started |-> FALSE, marked |-> FALSE]

SessionIdle ==
    /\ session = "Idle"
    /\ hud_state = "idle"
    /\ warmup = "Ready"
    /\ hotkey_mode = "hold"
    /\ tasks = NoTasks
    /\ hud_session = <<>>
    /\ hud_during = "Idle"
    /\ caller = NoCaller

NoEvent == [kind |-> "none", key |-> "none", value |-> None]

HotkeyIdle ==
    /\ required_ctrl = FALSE
    /\ keys_down = {}
    /\ devices = {}
    /\ held_ctrl = {}
    /\ is_pressed = FALSE
    /\ stopped = FALSE
    /\ edges = <<>>
    /\ owed = FALSE
    /\ event = NoEvent

\* AsrEngine::new with the default AsrConfig in a build with both backends;
\* finalize_samples not yet called directly.
NoAsrCall == [called |-> FALSE]
AsrIdle ==
    /\ config = [backend |-> "Parakeet", model_dir |-> FALSE,
                 features |-> {"asr-sherpa", "asr-ct2"}]
    /\ asr_call = NoAsrCall

CoreIdle == EngineIdle /\ PipelineIdle /\ SessionIdle /\ HotkeyIdle
\* paste_text not called.
NoPasteResult == [returned |-> FALSE]
PasteIdle ==
    /\ clipboard = "A"
    /\ paste_pc = "idle"
    /\ previous = "none"
    /\ chord_sent = FALSE
    /\ paste_result = NoPasteResult
    /\ observed = FALSE
    /\ clip_writes = 0
    /\ restored_over = "none"
    /\ clip_changes = 0

\* Option::None for an AsrSelection; default_asr_selection() is selection 1.
NoSelection == 0
Selections == {1, 2}
default_asr_selection == 1

\* A SpeechPipeline constructed by configure_pipeline: the ASR config built
\* from the settings, no recognizer loaded.
new_pipeline(version, selection, models) ==
    [version |-> version, selection |-> selection,
     model_dir |-> selection \in models, recognizer |-> FALSE]

NoWarmTask == [pc |-> "none", selection |-> NoSelection, phase |-> 1, pipeline |-> 0]
\* AsrWarmupTracker of AppState::new (state Warming is `warmup`).
NoTracker ==
    [warmed_selection |-> NoSelection, target_selection |-> NoSelection,
     last_error |-> FALSE]

WarmIdle ==
    /\ selected = default_asr_selection
    /\ installed = {default_asr_selection}
    /\ asr_pipeline = new_pipeline(1, default_asr_selection, {default_asr_selection})
    /\ asr_warmup = NoTracker
    /\ asr_warmup_generation = 0
    /\ last_known_good = NoSelection
    /\ warm_tasks = [g \in 1..MaxGenerations |-> NoWarmTask]
    /\ kick = "none"
    /\ stale_write = FALSE

\* Option::None for CURRENT_HOTKEY and for a listener cell.
NoShortcut == 0
NoThread == 0
\* The callers that may run a hotkey command at the same time.
Callers == {1, 2}
NoReg ==
    [op |-> "none", pc |-> "idle", shortcut |-> NoShortcut, backend |-> "none",
     ctx |-> "none", taken |-> NoThread, new |-> NoThread]

\* No hotkey registered yet, no listener started.
RegIdle ==
    /\ current_hotkey = NoShortcut
    /\ evdev_listener = NoThread
    /\ x11_listener = NoThread
    /\ threads = {}
    /\ x11_display = FALSE
    /\ reg = [c \in Callers |-> NoReg]
    /\ reg_calls = 0
    /\ spawned = 0
    /\ overlap = FALSE

\* The assets of the manifest: one per ASR selection.
AssetNames == Selections
\* ModelAsset: kind, status (with the progress of Downloading), size_bytes,
\* checksum is Some, source is Some.
Asset(kind, status, size, checksum, source) ==
    [kind |-> kind, status |-> status, progress |-> 0, size_bytes |-> size,
     checksum |-> checksum, source |-> source]
NoJob == [pc |-> "idle", name |-> NoSelection, calls |-> 0]

\* A manifest with nothing installed, saved by ModelManager::new; the
\* download worker waits for its first job.
ModelIdle ==
    /\ assets = [n \in AssetNames |->
                    Asset("Parakeet", IF n = default_asr_selection
                                      THEN "Installed" ELSE "NotInstalled",
                          0, FALSE, TRUE)]
    /\ disk = assets
    /\ save_failed = FALSE
    /\ queue = <<>>
    /\ worker = NoJob
    /\ queued = <<>>
    /\ begun = <<>>
    /\ finished = "none"

\* No manifest loaded.
MergeIdle ==
    /\ loaded = <<>>
    /\ merged = <<>>
    /\ merged_twice = <<>>
    /\ merge_pc = "idle"

\* No archive download begun.
NoArchive == [pc |-> "idle"]
\* The components checked on their own, before any of them has acted.
NoParts ==
    [archive |-> NoArchive, primary |-> [pc |-> "idle"], ct2 |-> [pc |-> "idle"],
     hf |-> [pc |-> "idle"], perf |-> [op |-> "idle"], vad |-> [op |-> "idle"],
     audio |-> [worker |-> "idle"], settings |-> [pc |-> "idle"],
     trim |-> [ctl |-> "off"], ensure |-> [pc |-> "idle"],
     throttle |-> [pc |-> "idle"], teardown |-> [worker |-> "idle"]]
PartsIdle == parts = NoParts
\* Everything but `parts` as it is before anything has acted.
MainIdle == CoreIdle /\ AsrIdle /\ PasteIdle /\ WarmIdle /\ RegIdle /\ ModelIdle /\ MergeIdle

LateIdle == RegIdle /\ ModelIdle /\ MergeIdle /\ PartsIdle

RestIdle == AsrIdle /\ PasteIdle /\ WarmIdle /\ LateIdle

\* ------------------------------------------------------------------------
\* core/pipeline.rs: VadTrimState
\* ------------------------------------------------------------------------
\* VadTrimState::record
record(trim, active, frame_samples) ==
    LET start == trim.total_samples
        end == start + frame_samples
    IN  IF active
        THEN [trim EXCEPT
                !.first_active = IF trim.first_active = None THEN start ELSE @,
                !.last_active = end,
                !.active_samples = @ + frame_samples,
                !.total_samples = end]
        ELSE [trim EXCEPT !.total_samples = end]

\* VadTrimState::note_buffer_drop
note_buffer_drop(trim, n) ==
    IF n = 0 THEN trim ELSE [trim EXCEPT !.buffer_start = @ + n]

\* ((ms * sample_rate as u64) / 1000) as usize
MsToSamples(ms, rate) == (ms * rate) \div 1000

NoOutputReason(code) == [ok |-> FALSE, code |-> code, start |-> 0, end |-> 0]

\* A trim that keeps the whole snapshot whatever the detector recorded.
compute_trim_range_untrimmed(rate, buffer_len, trim) ==
    [ok |-> TRUE, code |-> "ok", start |-> 0, end |-> buffer_len]

\* SpeechPipelineInner::compute_trim_range
compute_trim_range(rate, buffer_len, trim) ==
    IF buffer_len = 0 THEN NoOutputReason("no-audio")
    ELSE IF \/ trim.first_active = None
            \/ trim.active_samples < MsToSamples(VAD_MIN_SPEECH_MS, rate)
    THEN NoOutputReason("no-speech")
    ELSE
      LET first == trim.first_active
          lastA == IF trim.last_active = None THEN first ELSE trim.last_active
          pre_roll == MsToSamples(VAD_PRE_ROLL_MS, rate)
          post_roll == MsToSamples(VAD_POST_ROLL_MS, rate)
          keep_tail == MsToSamples(VAD_MAX_TRAILING_SILENCE_MS, rate)
          start_abs == SatSub(first, pre_roll)
          buffer_start == trim.buffer_start
          buffer_end == buffer_start + buffer_len
          trailing_silence == SatSub(buffer_end, lastA)
          end_abs == IF trailing_silence <= keep_tail
                     THEN buffer_end ELSE lastA + post_roll
          start == Max(start_abs, buffer_start)
          end == Min(end_abs, buffer_end)
      IN  IF end <= start THEN NoOutputReason("trim-rejected")
          ELSE [ok |-> TRUE, code |-> "ok",
                start |-> start - buffer_start, end |-> end - buffer_start]

\* ------------------------------------------------------------------------
\* Text: a string is a sequence of characters, " " the only whitespace.
\* ------------------------------------------------------------------------
Chars == {" ", "a"}
Texts == UNION {[1..n -> Chars] : n \in 0..MaxTextLen}

RECURSIVE trim_start(_)
trim_start(t) ==
    IF t = <<>> THEN t
    ELSE IF Head(t) = " " THEN trim_start(Tail(t)) ELSE t

RECURSIVE trim_end(_)
trim_end(t) ==
    IF t = <<>> THEN t
    ELSE IF t[Len(t)] = " " THEN trim_end(SubSeq(t, 1, Len(t) - 1)) ELSE t

\* str::trim
str_trim(t) == trim_end(trim_start(t))

\* What the recognizer can answer: an error (model missing, load or runtime
\* failure) or a text.
RecognizerAnswers ==
    {[ok |-> FALSE, text |-> <<>>]} \cup {[ok |-> TRUE, text |-> t] : t \in Texts}

\* AsrEngine::finalize_samples, given the recognizer's answer `rec`.
finalize_samples(rate, samples, rec) ==
    IF samples = <<>> THEN [kind |-> "none", text |-> <<>>, recognized |-> FALSE]
    ELSE IF rate # RATE_16K THEN [kind |-> "err", text |-> <<>>, recognized |-> FALSE]
    ELSE IF rec.ok THEN [kind |-> "ok", text |-> rec.text, recognized |-> TRUE]
    ELSE [kind |-> "err", text |-> <<>>, recognized |-> TRUE]

\* AutocleanService::clean: the texts it may return for `text`.
autoclean_clean(text) == Texts

\* How OutputInjector::inject(text, Paste) may end.
PasteOutcomes == {"paste-succeeded", "paste-failed", "paste-unconfirmed"}

Event(name, code, text) == [name |-> name, code |-> code, text |-> text]
Skipped(code) == Event("transcription-skipped", code, <<>>)

\* A delivery that emits the cleaned text without looking at it.
deliver_output_unguarded(cleaned, mode, paste) ==
    <<[name |-> "transcription-output", code |-> "", text |-> cleaned]>>
    \o (IF mode = "Paste" THEN <<[name |-> paste, code |-> "", text |-> <<>>]>> ELSE <<>>)

\* SpeechPipelineInner::deliver_output: the events it emits.
deliver_output(cleaned, mode, paste) ==
    IF str_trim(cleaned) = <<>> THEN <<Skipped("clean-empty")>>
    ELSE <<Event("transcription-output", "", cleaned)>>
         \o (IF mode = "Paste" THEN <<Event(paste, "", <<>>)>> ELSE <<>>)

\* SpeechPipelineInner::consume_result: the events it emits.
consume_result(text, cleaned, mode, paste) ==
    IF str_trim(text) = <<>> THEN <<Skipped("empty-transcript")>>
    ELSE deliver_output(cleaned, mode, paste)

\* The match on finalize_samples' result in set_listening(false).
finalize_events(result, cleaned, mode, paste) ==
    CASE result.kind = "ok" ->
           (IF str_trim(result.text) = <<>>
            THEN <<Skipped("empty-transcript"), Event("transcription-error", "", <<>>)>>
            ELSE <<>>)
           \o consume_result(result.text, cleaned, mode, paste)
      [] result.kind = "none" -> <<Skipped("no-speech")>>
      [] OTHER -> <<Event("transcription-error", "", <<>>)>>

\* reset_recognizer, reset_vad, reset_trim_state
ResetAll ==
    /\ EmptyRing
    /\ last_activation' = FALSE
    /\ vad_trim' = NoTrim

\* SpeechPipelineInner::set_listening(true)
SetListeningTrue ==
    /\ listening' = TRUE
    /\ ResetAll
    /\ fin' = NoFin
    /\ UNCHANGED <<sample_rate, output_mode>>

\* SpeechPipelineInner::set_listening(false); rec, cleaned and paste are what
\* the recognizer, the autoclean step and the injector answer when asked.
SetListeningFalse(rec, cleaned, paste) ==
    /\ listening' = FALSE
    /\ ResetAll
    /\ UNCHANGED <<sample_rate, output_mode>>
    /\ IF ~listening
       THEN fin' = [ran |-> TRUE, was_listening |-> FALSE, snapshot_len |-> 0,
                    trim |-> vad_trim, range |-> NoOutputReason("none"),
                    asr_called |-> FALSE, events |-> <<>>]
       ELSE LET samples == buffer
                range == compute_trim_range(sample_rate, Len(samples), vad_trim)
                trimmed == SubSeq(samples, range.start + 1, range.end)
                result == finalize_samples(sample_rate, trimmed, rec)
            IN  fin' = [ran |-> TRUE, was_listening |-> TRUE,
                        snapshot_len |-> Len(samples), trim |-> vad_trim,
                        range |-> range, asr_called |-> range.ok,
                        events |-> IF range.ok
                                   THEN finalize_events(result, cleaned, output_mode, paste)
                                   ELSE <<Skipped(range.code)>>]

\* VoiceActivityDetector::apply_hangover; `within` says that less than the
\* hangover has elapsed since the last activation.
apply_hangover(speech, within) ==
    IF speech THEN [active |-> TRUE, last_activation |-> TRUE]
    ELSE IF last_activation /\ within
    THEN [active |-> TRUE, last_activation |-> TRUE]
    ELSE [active |-> FALSE, last_activation |-> FALSE]

\* SpeechPipelineInner::process_frame(AudioEvent::Frame) for a frame of n
\* samples, while listening.
ProcessFrame(n, speech, within) ==
    /\ listening
    /\ LET vad == apply_hangover(speech, within)
           r == push_samples(buffer, NewSamples(pushed, n))
       IN  /\ last_activation' = vad.last_activation
           /\ vad_trim' = note_buffer_drop(record(vad_trim, vad.active, n), r.dropped)
           /\ buffer' = r.buffer
           /\ dropped' = dropped + r.dropped
    /\ pushed' = pushed + n
    /\ push_calls' = push_calls + 1
    /\ UNCHANGED <<sample_rate, listening, output_mode, fin>>

\* Frame lengths of the capture source.
FrameSizes == {2, 960}

\* ------------------------------------------------------------------------
\* Specification of the pipeline alone: set_listening(true), frames, then
\* set_listening(false), at each sample rate and output mode.
\* ------------------------------------------------------------------------
PipelineInit ==
    /\ EngineIdle
    /\ sample_rate \in SampleRates
    /\ listening = FALSE
    /\ vad_trim = NoTrim
    /\ last_activation = FALSE
    /\ output_mode \in {"Paste", "EmitOnly"}
    /\ fin = NoFin
    /\ SessionIdle
    /\ HotkeyIdle
    /\ RestIdle

PipelineStart ==
    /\ SetListeningTrue
    /\ UNCHANGED <<session_vars, hotkey_vars, rest_vars>>

PipelineFrame ==
    /\ push_calls < MaxFrames
    /\ \E n \in FrameSizes, speech \in BOOLEAN, within \in BOOLEAN :
          ProcessFrame(n, speech, within)
    /\ UNCHANGED <<session_vars, hotkey_vars, rest_vars>>

PipelineFinalize ==
    /\ \E rec \in RecognizerAnswers, paste \in PasteOutcomes :
         \E cleaned \in autoclean_clean(rec.text) :
            SetListeningFalse(rec, cleaned, paste)
    /\ UNCHANGED <<session_vars, hotkey_vars, rest_vars>>

PipelineNext ==
    \/ PipelineStart
    \/ PipelineFrame
    \/ PipelineFinalize

PipelineSpec == PipelineInit /\ [][PipelineNext]_vars

\* ------------------------------------------------------------------------
\* Specification of the ring alone: push_samples, take_samples and reset
\* called in any order on an engine, for each sample rate of the pipeline.
\* ------------------------------------------------------------------------
EnginePush(n) ==
    /\ LET r == push_samples(buffer, NewSamples(pushed, n))
       IN  /\ buffer' = r.buffer
           /\ dropped' = dropped + r.dropped
    /\ pushed' = pushed + n
    /\ push_calls' = push_calls + 1
    /\ UNCHANGED <<pipeline_vars, session_vars, hotkey_vars, rest_vars>>

EngineTake ==
    /\ EmptyRing
    /\ UNCHANGED <<pipeline_vars, session_vars, hotkey_vars, rest_vars>>

EngineReset ==
    /\ EmptyRing
    /\ UNCHANGED <<pipeline_vars, session_vars, hotkey_vars, rest_vars>>

RingInit ==
    /\ EngineIdle
    /\ sample_rate \in SampleRates
    /\ listening = FALSE
    /\ vad_trim = NoTrim
    /\ last_activation = FALSE
    /\ output_mode = "Paste"
    /\ fin = NoFin
    /\ SessionIdle
    /\ HotkeyIdle
    /\ RestIdle

RingPush == push_calls < MaxPushes /\ \E n \in PushSizes : EnginePush(n)

RingNext ==
    \/ RingPush
    \/ EngineTake
    \/ EngineReset

RingSpec == RingInit /\ [][RingNext]_vars

\* ------------------------------------------------------------------------
\* core/app_state.rs and core/hotkeys.rs: the session
\*
\* One handler at a time runs on the hotkey/command thread (caller); it takes
\* the session lock, calls the pipeline and emits hud states in separate
\* steps, as the code does.  The finalize tasks that complete_session spawns
\* run concurrently with it and with each other; tasks counts them by the
\* step they are about to take.
\* ------------------------------------------------------------------------
SessionStartStates == {"listening", "warming", "asr-error"}

IsPrefix(a, b) == Len(a) <= Len(b) /\ a = SubSeq(b, 1, Len(a))

\* The order of the hud states of a session whose first hud state is `first`.
HudOrder(first) == <<first, "processing", "idle">>

\* ghost: the hud states emitted since the latest start of a session, up to
\* the first one that leaves the order
hud_append(seq, state) ==
    IF state \in SessionStartStates THEN <<state>>
    ELSE IF seq = <<>> \/ ~IsPrefix(seq, HudOrder(seq[1])) THEN seq
    ELSE Append(seq, state)

\* AppState::set_hud_state
set_hud_state(state, during) ==
    /\ hud_state' = state
    /\ hud_session' = hud_append(hud_session, state)
    /\ hud_during' = during

NoHud == UNCHANGED <<hud_state, hud_session, hud_during>>

TaskCount == tasks.finalize + tasks.set_idle + tasks.hud_idle

\* A start that also takes over a session that is being finalized.
should_start_unless_listening(state) == state # "Listening"

\* start_session_with_overlay: "Only start a new session from Idle."
should_start(state) == state = "Idle"

\* handle_hotkey_state: what the handler goes on to do for an edge.
handle_hotkey_state(mode, edge, is_listening) ==
    IF mode = "toggle"
    THEN IF edge = "Pressed"
         THEN IF is_listening
              THEN [pc |-> "mark", then_complete |-> TRUE]
              ELSE [pc |-> "start_warm", then_complete |-> FALSE]
         ELSE [pc |-> "none", then_complete |-> FALSE]
    ELSE IF edge = "Pressed"
    THEN [pc |-> "start_warm", then_complete |-> FALSE]
    ELSE IF is_listening
    THEN [pc |-> "mark", then_complete |-> TRUE]
    ELSE [pc |-> "complete_lock", then_complete |-> FALSE]

\* AppState::is_listening
is_listening(state) == state = "Listening"

Accept(op, edge, next) ==
    /\ caller.pc = "none"
    /\ caller' = IF next.pc = "none" THEN NoCaller
                 ELSE [NoCaller EXCEPT !.pc = next.pc, !.op = op, !.edge = edge,
                                       !.mode = hotkey_mode, !.at = session,
                                       !.then_complete = next.then_complete]
    /\ UNCHANGED <<session, hud_state, warmup, hotkey_mode, tasks, hud_session, hud_during>>
    /\ UNCHANGED <<engine_vars, pipeline_vars, hotkey_vars, rest_vars>>

\* handle_hotkey_state up to its first call into AppState
HotkeyEdge ==
    \E edge \in {"Pressed", "Released"} :
        Accept("hotkey", edge,
               handle_hotkey_state(hotkey_mode, edge, is_listening(session)))

\* main.rs command begin_dictation
BeginDictation ==
    Accept("begin_dictation", "none", [pc |-> "start_warm", then_complete |-> FALSE])

\* main.rs command mark_dictation_processing
MarkDictationProcessing ==
    Accept("mark_dictation_processing", "none", [pc |-> "mark", then_complete |-> FALSE])

\* main.rs command complete_dictation
CompleteDictation ==
    Accept("complete_dictation", "none", [pc |-> "complete_lock", then_complete |-> FALSE])

\* main.rs command secure_field_blocked -> AppState::secure_blocked
SecureFieldBlocked ==
    Accept("secure_blocked", "none", [pc |-> "complete_lock", then_complete |-> FALSE])

\* start_session_with_overlay: match self.asr_warmup_state()
StartWarm ==
    /\ caller.pc = "start_warm"
    /\ IF warmup = "Ready"
       THEN caller' = [caller EXCEPT !.pc = "start_lock"] /\ NoHud
       ELSE /\ caller' = NoCaller
            /\ set_hud_state(IF warmup = "Warming" THEN "warming" ELSE "asr-error", session)
    /\ UNCHANGED <<session, warmup, hotkey_mode, tasks>>
    /\ UNCHANGED <<engine_vars, pipeline_vars, hotkey_vars, rest_vars>>

\* start_session_with_overlay: the block that holds the session lock
StartLock ==
    /\ caller.pc = "start_lock"
    /\ IF should_start(session)
       THEN /\ session' = "Listening"
            /\ caller' = [caller EXCEPT !.pc = "start_listen", !.started = TRUE]
       ELSE /\ session' = session
            /\ caller' = NoCaller
    /\ NoHud
    /\ UNCHANGED <<warmup, hotkey_mode, tasks>>
    /\ UNCHANGED <<engine_vars, pipeline_vars, hotkey_vars, rest_vars>>

\* start_session_with_overlay: pipeline.set_listening(true)
StartListen ==
    /\ caller.pc = "start_listen"
    /\ SetListeningTrue
    /\ caller' = [caller EXCEPT !.pc = "start_hud"]
    /\ NoHud
    /\ UNCHANGED <<session, warmup, hotkey_mode, tasks, hotkey_vars, rest_vars>>

\* start_session_with_overlay: set_hud_state("listening")
StartHud ==
    /\ caller.pc = "start_hud"
    /\ set_hud_state("listening", session)
    /\ caller' = NoCaller
    /\ UNCHANGED <<session, warmup, hotkey_mode, tasks>>
    /\ UNCHANGED <<engine_vars, pipeline_vars, hotkey_vars, rest_vars>>

\* AppState::mark_processing (the hud state is set under the session lock)
MarkProcessing ==
    /\ caller.pc = "mark"
    /\ IF session = "Listening"
       THEN /\ session' = "Processing"
            /\ set_hud_state("processing", "Processing")
            /\ caller' = IF caller.then_complete
                         THEN [caller EXCEPT !.marked = TRUE, !.pc = "complete_lock"]
                         ELSE NoCaller
       ELSE /\ session' = session
            /\ NoHud
            /\ caller' = IF caller.then_complete
                         THEN [caller EXCEPT !.pc = "complete_lock"]
                         ELSE NoCaller
    /\ UNCHANGED <<warmup, hotkey_mode, tasks>>
    /\ UNCHANGED <<engine_vars, pipeline_vars, hotkey_vars, rest_vars>>

\* complete_session: the block that holds the session lock
CompleteLock ==
    /\ caller.pc = "complete_lock"
    /\ session' = IF session = "Listening" THEN "Processing" ELSE session
    /\ caller' = [caller EXCEPT !.pc = "complete_spawn", !.prev = session,
                                !.marked = @ \/ session = "Listening"]
    /\ NoHud
    /\ UNCHANGED <<warmup, hotkey_mode, tasks>>
    /\ UNCHANGED <<engine_vars, pipeline_vars, hotkey_vars, rest_vars>>

\* complete_session: the hud state for `previous`, then the spawn
CompleteSpawn ==
    /\ caller.pc = "complete_spawn"
    /\ TaskCount < MaxTasks
    /\ IF caller.prev = "Listening" THEN set_hud_state("processing", session)
       ELSE IF caller.prev = "Idle" THEN set_hud_state("idle", session)
       ELSE NoHud
    /\ tasks' = [tasks EXCEPT !.finalize = @ + 1]
    /\ caller' = NoCaller
    /\ UNCHANGED <<session, warmup, hotkey_mode>>
    /\ UNCHANGED <<engine_vars, pipeline_vars, hotkey_vars, rest_vars>>

HasError(events) ==
    \E i \in 1..Len(events) : events[i].name = "transcription-error"

\* A task that gives up when finalization reported an error.
after_finalize_unless_error(events) ==
    IF HasError(events) THEN "done" ELSE "set_idle"

\* complete_session's task: whatever set_listening(false) did, the task goes
\* on to set the session state.
after_finalize(events) == "set_idle"

\* The answers tried when a session is finalized.
SessionAnswers ==
    {[ok |-> FALSE, text |-> <<>>], [ok |-> TRUE, text |-> <<"a">>],
     [ok |-> TRUE, text |-> <<" ">>]}
SessionCleaned == {<<"a">>}
SessionPasteOutcomes == {"paste-succeeded", "paste-failed"}

\* The spawned task: spawn_blocking(pipeline.set_listening(false)).await
TaskFinalize ==
    /\ tasks.finalize > 0
    /\ \E rec \in SessionAnswers, paste \in SessionPasteOutcomes :
         \E cleaned \in autoclean_clean(rec.text) \cap SessionCleaned :
            SetListeningFalse(rec, cleaned, paste)
    /\ tasks' = IF after_finalize(fin'.events) = "set_idle"
                THEN [tasks EXCEPT !.finalize = @ - 1, !.set_idle = @ + 1]
                ELSE [tasks EXCEPT !.finalize = @ - 1]
    /\ UNCHANGED <<session, hud_state, warmup, hotkey_mode, hud_session, hud_during, caller>>
    /\ UNCHANGED <<hotkey_vars, rest_vars>>

\* The spawned task: *guard = SessionState::Idle
TaskSetIdle ==
    /\ tasks.set_idle > 0
    /\ session' = "Idle"
    /\ tasks' = [tasks EXCEPT !.set_idle = @ - 1, !.hud_idle = @ + 1]
    /\ NoHud
    /\ UNCHANGED <<warmup, hotkey_mode, caller>>
    /\ UNCHANGED <<engine_vars, pipeline_vars, hotkey_vars, rest_vars>>

\* The spawned task: state.set_hud_state("idle")
TaskHudIdle ==
    /\ tasks.hud_idle > 0
    /\ set_hud_state("idle", session)
    /\ tasks' = [tasks EXCEPT !.hud_idle = @ - 1]
    /\ UNCHANGED <<session, warmup, hotkey_mode, caller>>
    /\ UNCHANGED <<engine_vars, pipeline_vars, hotkey_vars, rest_vars>>

\* kickoff_asr_warmup for a selection that is not the warmed one
KickoffWarmup ==
    /\ warmup # "Warming"
    /\ warmup' = "Warming"
    /\ UNCHANGED <<session, hud_state, hotkey_mode, tasks, hud_session, hud_during, caller>>
    /\ UNCHANGED <<engine_vars, pipeline_vars, hotkey_vars, rest_vars>>

\* The warmup task ends: Ready, or Error
WarmupEnds ==
    /\ warmup = "Warming"
    /\ warmup' \in {"Ready", "Error"}
    /\ UNCHANGED <<session, hud_state, hotkey_mode, tasks, hud_session, hud_during, caller>>
    /\ UNCHANGED <<engine_vars, pipeline_vars, hotkey_vars, rest_vars>>

\* update_settings writes another hotkey mode
UpdateHotkeyMode ==
    /\ hotkey_mode' \in {"hold", "toggle"} \ {hotkey_mode}
    /\ UNCHANGED <<session, hud_state, warmup, tasks, hud_session, hud_during, caller>>
    /\ UNCHANGED <<engine_vars, pipeline_vars, hotkey_vars, rest_vars>>

SessionFrameSizes == {6}

\* The frame worker, while a session runs
SessionFrame ==
    /\ push_calls < MaxSessionFrames
    /\ \E n \in SessionFrameSizes, speech \in BOOLEAN :
          ProcessFrame(n, speech, FALSE)
    /\ UNCHANGED <<session_vars, hotkey_vars, rest_vars>>

SessionInit ==
    /\ EngineIdle
    /\ PipelineIdle
    /\ session = "Idle"
    /\ hud_state = "idle"
    /\ warmup \in {"Warming", "Ready"}
    /\ hotkey_mode \in {"hold", "toggle"}
    /\ tasks = NoTasks
    /\ hud_session = <<>>
    /\ hud_during = "Idle"
    /\ caller = NoCaller
    /\ HotkeyIdle
    /\ RestIdle

CallerStep ==
    \/ StartWarm
    \/ StartLock
    \/ StartListen
    \/ StartHud
    \/ MarkProcessing
    \/ CompleteLock
    \/ CompleteSpawn

SessionNext ==
    \/ HotkeyEdge
    \/ BeginDictation
    \/ MarkDictationProcessing
    \/ CompleteDictation
    \/ SecureFieldBlocked
    \/ StartWarm
    \/ StartLock
    \/ StartListen
    \/ StartHud
    \/ MarkProcessing
    \/ CompleteLock
    \/ CompleteSpawn
    \/ TaskFinalize
    \/ TaskSetIdle
    \/ TaskHudIdle
    \/ KickoffWarmup
    \/ WarmupEnds
    \/ UpdateHotkeyMode
    \/ SessionFrame

SessionSpec == SessionInit /\ [][SessionNext]_vars

\* ------------------------------------------------------------------------
\* The session with ASR warm, under fair scheduling: a spawned task takes
\* its next step, and a handler that has started runs to its end.  Nothing
\* obliges the user or the front end to send another event.
\* ------------------------------------------------------------------------
FairInit ==
    /\ EngineIdle
    /\ PipelineIdle
    /\ session = "Idle"
    /\ hud_state = "idle"
    /\ warmup = "Ready"
    /\ hotkey_mode \in {"hold", "toggle"}
    /\ tasks = NoTasks
    /\ hud_session = <<>>
    /\ hud_during = "Idle"
    /\ caller = NoCaller
    /\ HotkeyIdle
    /\ RestIdle

FairNext ==
    \/ HotkeyEdge
    \/ MarkDictationProcessing
    \/ CompleteDictation
    \/ StartWarm
    \/ StartLock
    \/ StartListen
    \/ StartHud
    \/ MarkProcessing
    \/ CompleteLock
    \/ CompleteSpawn
    \/ TaskFinalize
    \/ TaskSetIdle
    \/ TaskHudIdle
    \/ SessionFrame

SessionFairSpec ==
    /\ FairInit
    /\ [][FairNext]_vars
    /\ WF_vars(CallerStep)
    /\ WF_vars(TaskFinalize)
    /\ WF_vars(TaskSetIdle)
    /\ WF_vars(TaskHudIdle)

\* ------------------------------------------------------------------------
\* core/hotkeys.rs: linux_evdev::run_loop
\*
\* The loop handles one thing at a time: a change under /dev/input, or one
\* key event (value 1 down, 0 up, 2 repeat) polled from a keyboard.
\* ------------------------------------------------------------------------
Keyboards == {1, 2}
TriggerKey == "KEY_SPACE"
CtrlKeys == {"KEY_LEFTCTRL", "KEY_RIGHTCTRL"}
Keys == {TriggerKey} \cup CtrlKeys

\* update_modifier_state, for the ctrl keys
update_modifier_state(key, value, held) ==
    IF key \in CtrlKeys
    THEN IF value = 1 THEN held \cup {key}
         ELSE IF value = 0 THEN held \ {key}
         ELSE held
    ELSE held

\* modifiers_satisfied
modifiers_satisfied(required, held) == ~(required /\ held = {})

\* The body of run_loop's `for (key, value) in manager.poll_events()`:
\* the held set and the latch after the event, and the edge emitted.
handle_key_event(key, value, required, held, pressed) ==
    LET h == update_modifier_state(key, value, held)
    IN  IF key # TriggerKey \/ ~modifiers_satisfied(required, h)
        THEN [held |-> h, is_pressed |-> pressed, emit |-> "none"]
        ELSE IF value = 1 /\ ~pressed
        THEN [held |-> h, is_pressed |-> TRUE, emit |-> "Pressed"]
        ELSE IF value = 0 /\ pressed
        THEN [held |-> h, is_pressed |-> FALSE, emit |-> "Released"]
        ELSE [held |-> h, is_pressed |-> pressed, emit |-> "none"]

HandleKeyEvent(key, value) ==
    LET r == handle_key_event(key, value, required_ctrl, held_ctrl, is_pressed)
    IN  /\ held_ctrl' = r.held
        /\ is_pressed' = r.is_pressed
        /\ edges' = IF r.emit = "none" THEN edges ELSE Append(edges, r.emit)
        /\ owed' = IF r.emit = "Pressed" THEN TRUE
                   ELSE IF r.emit = "Released" THEN FALSE ELSE owed
        /\ event' = [kind |-> "key", key |-> key, value |-> value]

\* A key goes down on an attached keyboard: a value-1 event.
KeyDown ==
    /\ ~stopped
    /\ Len(edges) < MaxEdges
    /\ \E k \in devices, key \in Keys :
          /\ <<k, key>> \notin keys_down
          /\ keys_down' = keys_down \cup {<<k, key>>}
          /\ HandleKeyEvent(key, 1)
    /\ UNCHANGED <<required_ctrl, devices, stopped>>
    /\ UNCHANGED <<engine_vars, pipeline_vars, session_vars, rest_vars>>

\* A key goes up: a value-0 event.
KeyUp ==
    /\ ~stopped
    /\ \E k \in devices, key \in Keys :
          /\ <<k, key>> \in keys_down
          /\ keys_down' = keys_down \ {<<k, key>>}
          /\ HandleKeyEvent(key, 0)
    /\ UNCHANGED <<required_ctrl, devices, stopped>>
    /\ UNCHANGED <<engine_vars, pipeline_vars, session_vars, rest_vars>>

\* A key that is down repeats: a value-2 event.
KeyRepeat ==
    /\ ~stopped
    /\ \E k \in devices, key \in Keys :
          /\ <<k, key>> \in keys_down
          /\ HandleKeyEvent(key, 2)
    /\ UNCHANGED <<required_ctrl, keys_down, devices, stopped>>
    /\ UNCHANGED <<engine_vars, pipeline_vars, session_vars, rest_vars>>

\* run_loop: `if manager.check_for_device_changes() { ... }`
DeviceChangeReset ==
    /\ held_ctrl' = {}
    /\ is_pressed' = FALSE
    /\ event' = [kind |-> "device", key |-> "none", value |-> None]
    /\ UNCHANGED <<required_ctrl, stopped, edges, owed>>
    /\ UNCHANGED <<engine_vars, pipeline_vars, session_vars, rest_vars>>

\* A keyboard is attached.
DeviceAdded ==
    /\ ~stopped
    /\ \E k \in Keyboards \ devices : devices' = devices \cup {k}
    /\ UNCHANGED keys_down
    /\ DeviceChangeReset

\* A keyboard is detached, with whatever keys were down on it.
DeviceRemoved ==
    /\ ~stopped
    /\ \E k \in devices :
          /\ devices' = devices \ {k}
          /\ keys_down' = {p \in keys_down : p[1] # k}
    /\ DeviceChangeReset

\* Another event node appears or disappears under /dev/input.
OtherDeviceChanged ==
    /\ ~stopped
    /\ event.kind # "device"
    /\ UNCHANGED <<devices, keys_down>>
    /\ DeviceChangeReset

\* run_loop: stop_rx.try_recv() has a message
StopListener ==
    /\ ~stopped
    /\ stopped' = TRUE
    /\ event' = [kind |-> "stop", key |-> "none", value |-> None]
    /\ UNCHANGED <<required_ctrl, keys_down, devices, held_ctrl, is_pressed, edges, owed>>
    /\ UNCHANGED <<engine_vars, pipeline_vars, session_vars, rest_vars>>

HotkeyInit ==
    /\ EngineIdle
    /\ PipelineIdle
    /\ SessionIdle
    /\ RestIdle
    /\ required_ctrl \in BOOLEAN
    /\ keys_down = {}
    /\ devices \in SUBSET Keyboards
    /\ held_ctrl = {}
    /\ is_pressed = FALSE
    /\ stopped = FALSE
    /\ edges = <<>>
    /\ owed = FALSE
    /\ event = NoEvent

HotkeyNext ==
    \/ KeyDown
    \/ KeyUp
    \/ KeyRepeat
    \/ DeviceAdded
    \/ DeviceRemoved
    \/ OtherDeviceChanged
    \/ StopListener

HotkeySpec == HotkeyInit /\ [][HotkeyNext]_vars

\* ------------------------------------------------------------------------
\* asr/engine.rs: finalize_samples called on its own (AsrSpec)
\* ------------------------------------------------------------------------
AsrBackends == {"WhisperOnnx", "WhisperCt2", "Parakeet"}
Features == {"asr-sherpa", "asr-ct2"}

\* The lengths of the sample slices handed to finalize_samples.
SliceLens == {0, 1, 2}

\* finalize_samples' match on the backend down to the recognizer: what the
\* transcribe_with_* function of the configured backend answers at 16 kHz,
\* `rec` being the answer of a loaded recognizer.
transcribe(cfg, rec) ==
    LET feature == IF cfg.backend = "WhisperCt2" THEN "asr-ct2" ELSE "asr-sherpa"
    IN  IF feature \notin cfg.features THEN [ok |-> FALSE, text |-> <<>>]
        ELSE IF ~cfg.model_dir THEN [ok |-> FALSE, text |-> <<>>]
        ELSE rec

\* AsrEngine::finalize_samples(sample_rate, samples)
AsrFinalize ==
    \E rate \in SampleRates, n \in SliceLens, rec \in RecognizerAnswers :
        /\ asr_call' = [called |-> TRUE, sample_rate |-> rate, samples |-> n,
                        answer |-> transcribe(config, rec),
                        result |-> finalize_samples(rate, NewSamples(0, n),
                                                    transcribe(config, rec))]
        /\ UNCHANGED config
        /\ UNCHANGED <<core_vars, paste_vars, warm_vars, late_vars>>

AsrInit ==
    /\ CoreIdle
    /\ config \in [backend : AsrBackends, model_dir : BOOLEAN, features : SUBSET Features]
    /\ asr_call = NoAsrCall
    /\ PasteIdle
    /\ WarmIdle
    /\ LateIdle

AsrNext == AsrFinalize

AsrSpec == AsrInit /\ [][AsrNext]_vars

\* ------------------------------------------------------------------------
\* output/injector.rs: paste_text against a shared clipboard (PasteSpec)
\* ------------------------------------------------------------------------
\* Clipboard contents: the transcript being pasted and two other contents.
Transcript == "T"
ClipContents == {"A", "B", Transcript}

\* clipboard_equals: the helper's output equals `expected`; false when the
\* helper is missing or fails.
clipboard_equals(expected, contents, readable) == readable /\ contents = expected

\* A wait that gives the clipboard up as confirmed when its time is over.
wait_for_clipboard_equals_lenient(equal, timed_out) ==
    IF equal \/ timed_out THEN "equal" ELSE "sleep"

\* wait_for_clipboard_equals: one round of the loop.
wait_for_clipboard_equals(equal, timed_out) ==
    IF equal THEN "equal"
    ELSE IF timed_out THEN "timeout"
    ELSE "sleep"

\* A failure that always reports the transcript as on the clipboard.
PasteFailureOnClipboard(step, kind, transcript_on_clipboard, at) ==
    [returned |-> TRUE, ok |-> FALSE, step |-> step, kind |-> kind,
     transcript_on_clipboard |-> TRUE, at |-> at]

\* PasteFailure { step, kind, message, transcript_on_clipboard }, returned
\* from the step `at` of paste_text.
PasteFailure(step, kind, transcript_on_clipboard, at) ==
    [returned |-> TRUE, ok |-> FALSE, step |-> step, kind |-> kind,
     transcript_on_clipboard |-> transcript_on_clipboard, at |-> at]

PasteOk == [returned |-> TRUE, ok |-> TRUE]

PasteReturn(result) == paste_result' = result /\ paste_pc' = "done"

\* let previous = snapshot_clipboard().ok().flatten();
Snapshot ==
    /\ paste_pc = "snapshot"
    /\ previous' \in {clipboard, "none"}
    /\ paste_pc' = "set"
    /\ UNCHANGED <<clipboard, chord_sent, paste_result, observed, clip_writes,
                   restored_over, clip_changes>>
    /\ UNCHANGED <<core_vars, asr_vars, warm_vars, late_vars>>

\* set_clipboard_text(text).map_err(..)?
SetClipboardText ==
    /\ paste_pc = "set"
    /\ \/ /\ clipboard' = Transcript
          /\ clip_writes' = clip_writes + 1
          /\ paste_pc' = "wait"
          /\ UNCHANGED paste_result
       \/ /\ PasteReturn(PasteFailure("ClipboardWrite", "Failed", FALSE, "set"))
          /\ UNCHANGED <<clipboard, clip_writes>>
    /\ UNCHANGED <<previous, chord_sent, observed, restored_over, clip_changes>>
    /\ UNCHANGED <<core_vars, asr_vars, warm_vars, late_vars>>

\* if !wait_for_clipboard_equals(text, 250 ms) { return Err(..) }: one round.
WaitForClipboard ==
    /\ paste_pc = "wait"
    /\ \E readable \in BOOLEAN, timed_out \in BOOLEAN :
          LET round == wait_for_clipboard_equals(
                           clipboard_equals(Transcript, clipboard, readable), timed_out)
          IN  \/ /\ round = "equal"
                 /\ observed' = clipboard_equals(Transcript, clipboard, readable)
                 /\ paste_pc' = "chord"
                 /\ UNCHANGED paste_result
              \/ /\ round = "timeout"
                 /\ PasteReturn(PasteFailure("ClipboardWrite", "Unconfirmed", TRUE, "wait"))
                 /\ UNCHANGED observed
              \/ /\ round = "sleep"
                 /\ UNCHANGED <<paste_pc, paste_result, observed>>
    /\ UNCHANGED <<clipboard, previous, chord_sent, clip_writes, restored_over, clip_changes>>
    /\ UNCHANGED <<core_vars, asr_vars, warm_vars, late_vars>>

\* if let Err(error) = send_paste_chord(shortcut) { let _ = set_clipboard_text(text); .. }
SendPasteChord ==
    /\ paste_pc = "chord"
    /\ \/ /\ chord_sent' = TRUE
          /\ paste_pc' = "hold"
          /\ UNCHANGED <<clipboard, clip_writes, paste_result>>
       \/ /\ PasteReturn(PasteFailure("KeyInject", "Failed", TRUE, "chord"))
          /\ \/ clipboard' = Transcript /\ clip_writes' = clip_writes + 1
             \/ UNCHANGED <<clipboard, clip_writes>>
          /\ UNCHANGED chord_sent
    /\ UNCHANGED <<previous, observed, restored_over, clip_changes>>
    /\ UNCHANGED <<core_vars, asr_vars, warm_vars, late_vars>>

\* sleep(650 ms); let Some(previous) = previous else { return Err(..) };
HoldEnds ==
    /\ paste_pc = "hold"
    /\ IF previous = "none"
       THEN PasteReturn(PasteFailure("ClipboardWrite", "Unconfirmed", TRUE, "hold"))
       ELSE paste_pc' = "check" /\ UNCHANGED paste_result
    /\ UNCHANGED <<clipboard, previous, chord_sent, observed, clip_writes,
                   restored_over, clip_changes>>
    /\ UNCHANGED <<core_vars, asr_vars, warm_vars, late_vars>>

\* if !clipboard_equals(text) { return Err(..) }
CheckUnchanged ==
    /\ paste_pc = "check"
    /\ \E readable \in BOOLEAN :
          IF clipboard_equals(Transcript, clipboard, readable)
          THEN paste_pc' = "restore" /\ UNCHANGED paste_result
          ELSE PasteReturn(PasteFailure("ClipboardWrite", "Unconfirmed", FALSE, "check"))
    /\ UNCHANGED <<clipboard, previous, chord_sent, observed, clip_writes,
                   restored_over, clip_changes>>
    /\ UNCHANGED <<core_vars, asr_vars, warm_vars, late_vars>>

\* restore_clipboard(previous).map_err(..)?; Ok(())
RestoreClipboard ==
    /\ paste_pc = "restore"
    /\ \/ /\ restored_over' = clipboard
          /\ clipboard' = previous
          /\ clip_writes' = clip_writes + 1
          /\ PasteReturn(PasteOk)
       \/ /\ PasteReturn(PasteFailure("ClipboardWrite", "Unconfirmed", TRUE, "restore"))
          /\ UNCHANGED <<clipboard, clip_writes, restored_over>>
    /\ UNCHANGED <<previous, chord_sent, observed, clip_changes>>
    /\ UNCHANGED <<core_vars, asr_vars, warm_vars, late_vars>>

\* The user or another application copies something.
ClipboardChanged ==
    /\ paste_pc # "done"
    /\ clip_changes < MaxClipChanges
    /\ \E c \in ClipContents \ {clipboard} : clipboard' = c
    /\ clip_changes' = clip_changes + 1
    /\ UNCHANGED <<paste_pc, previous, chord_sent, paste_result, observed, clip_writes,
                   restored_over>>
    /\ UNCHANGED <<core_vars, asr_vars, warm_vars, late_vars>>

PasteInit ==
    /\ CoreIdle
    /\ AsrIdle
    /\ WarmIdle
    /\ LateIdle
    /\ clipboard \in ClipContents
    /\ paste_pc = "snapshot"
    /\ previous = "none"
    /\ chord_sent = FALSE
    /\ paste_result = NoPasteResult
    /\ observed = FALSE
    /\ clip_writes = 0
    /\ restored_over = "none"
    /\ clip_changes = 0

PasteNext ==
    \/ Snapshot
    \/ SetClipboardText
    \/ WaitForClipboard
    \/ SendPasteChord
    \/ HoldEnds
    \/ CheckUnchanged
    \/ RestoreClipboard
    \/ ClipboardChanged

PasteSpec == PasteInit /\ [][PasteNext]_vars

\* ------------------------------------------------------------------------
\* core/app_state.rs: ASR warmup, pipeline reloads and session start
\* (WarmupSpec)
\* ------------------------------------------------------------------------
\* Everything but the warmup variables and the tracker's state.
warm_frame ==
    <<engine_vars, pipeline_vars, session_rest, hotkey_vars, asr_vars, paste_vars,
      late_vars>>

\* The closure is_current of warmup_current_asr and warmup_selected_asr.
is_current(generation) == asr_warmup_generation = generation

\* main.rs update_settings: write_frontend, then configure_pipeline, which
\* replaces the pipeline when the audio device or the ASR config differs.
UpdateSettings ==
    /\ kick = "none"
    /\ asr_warmup_generation < MaxGenerations
    /\ \E selection \in Selections, device_changed \in BOOLEAN :
          LET replace == \/ device_changed
                         \/ asr_pipeline.selection # selection
                         \/ asr_pipeline.model_dir # (selection \in installed)
          IN  /\ replace => asr_pipeline.version < MaxPipelines
              /\ selected' = selection
              /\ asr_pipeline' =
                    IF replace
                    THEN new_pipeline(asr_pipeline.version + 1, selection, installed)
                    ELSE asr_pipeline
    /\ kick' = "lock"
    /\ UNCHANGED <<installed, asr_warmup, asr_warmup_generation, last_known_good,
                   warm_tasks, stale_write, warmup>>
    /\ UNCHANGED warm_frame

\* kickoff_asr_warmup: the block that holds the tracker lock (should_start)
KickoffLock ==
    /\ kick = "lock"
    /\ IF \/ (warmup = "Ready" /\ asr_warmup.warmed_selection = selected)
          \/ (warmup = "Warming" /\ asr_warmup.target_selection = selected)
       THEN kick' = "none" /\ UNCHANGED <<warmup, asr_warmup>>
       ELSE /\ warmup' = "Warming"
            /\ asr_warmup' = [asr_warmup EXCEPT !.target_selection = selected,
                                                !.last_error = FALSE]
            /\ kick' = "spawn"
    /\ UNCHANGED <<selected, installed, asr_pipeline, asr_warmup_generation,
                   last_known_good, warm_tasks, stale_write>>
    /\ UNCHANGED warm_frame

\* kickoff_asr_warmup: fetch_add on the generation and spawn of the task
KickoffSpawn ==
    /\ kick = "spawn"
    /\ asr_warmup_generation' = asr_warmup_generation + 1
    /\ warm_tasks' = [warm_tasks EXCEPT ![asr_warmup_generation + 1] =
                          [NoWarmTask EXCEPT !.pc = "snapshot"]]
    /\ kick' = "none"
    /\ UNCHANGED <<selected, installed, asr_pipeline, asr_warmup, last_known_good,
                   stale_write, warmup>>
    /\ UNCHANGED warm_frame

\* on_download_success: the asset becomes Installed, then reload_pipeline
ModelInstalled ==
    /\ asr_pipeline.version < MaxPipelines
    /\ \E selection \in Selections \ installed :
          /\ installed' = installed \cup {selection}
          /\ asr_pipeline' = new_pipeline(asr_pipeline.version + 1, selected,
                                          installed \cup {selection})
    /\ UNCHANGED <<selected, asr_warmup, asr_warmup_generation, last_known_good,
                   warm_tasks, kick, stale_write, warmup>>
    /\ UNCHANGED warm_frame

\* AppState::uninstall_model: uninstall_by_name, then reload_pipeline
UninstallModel ==
    /\ asr_pipeline.version < MaxPipelines
    /\ \E selection \in installed :
          /\ installed' = installed \ {selection}
          /\ asr_pipeline' = new_pipeline(asr_pipeline.version + 1, selected,
                                          installed \ {selection})
    /\ UNCHANGED <<selected, asr_warmup, asr_warmup_generation, last_known_good,
                   warm_tasks, kick, stale_write, warmup>>
    /\ UNCHANGED warm_frame

\* The task of generation g goes on with `task`; nothing else changes.
WarmTaskOnly(g, task) ==
    /\ warm_tasks' = [warm_tasks EXCEPT ![g] = task]
    /\ UNCHANGED <<selected, installed, asr_pipeline, asr_warmup, asr_warmup_generation,
                   last_known_good, kick, stale_write, warmup>>
    /\ UNCHANGED warm_frame

\* Where a failed attempt of warmup_selected_asr leads in warmup_current_asr.
after_failure(task) ==
    [task EXCEPT !.pc = IF task.phase = 1 THEN "fallback" ELSE "check_error"]

\* warmup_selected_asr: snapshot of the settings' selection
WarmSnapshot ==
    \E g \in 1..MaxGenerations :
        /\ warm_tasks[g].pc = "snapshot"
        /\ WarmTaskOnly(g, [warm_tasks[g] EXCEPT !.pc = "assets", !.selection = selected])

\* ensure_asr_assets_ready: installed, download failed, or no longer current
WarmAssets ==
    \E g \in 1..MaxGenerations :
        /\ warm_tasks[g].pc = "assets"
        /\ IF warm_tasks[g].selection \in installed
           THEN WarmTaskOnly(g, [warm_tasks[g] EXCEPT !.pc = "pipeline"])
           ELSE \/ WarmTaskOnly(g, after_failure(warm_tasks[g]))
                \/ /\ ~is_current(g)
                   /\ WarmTaskOnly(g, [warm_tasks[g] EXCEPT !.pc = "done"])

\* warmup_selected_asr: the loop that waits for a pipeline with a model_dir
WarmPipeline ==
    \E g \in 1..MaxGenerations :
        /\ warm_tasks[g].pc = "pipeline"
        /\ IF ~is_current(g)
           THEN WarmTaskOnly(g, [warm_tasks[g] EXCEPT !.pc = "done"])
           ELSE IF asr_pipeline.model_dir
           THEN WarmTaskOnly(g, [warm_tasks[g] EXCEPT !.pc = "warmup_asr",
                                                       !.pipeline = asr_pipeline.version])
           ELSE WarmTaskOnly(g, after_failure(warm_tasks[g]))

\* pipeline_clone.warmup_asr(): loads the recognizer of the cloned pipeline
WarmLoad ==
    \E g \in 1..MaxGenerations :
        /\ warm_tasks[g].pc = "warmup_asr"
        /\ \/ /\ warm_tasks' = [warm_tasks EXCEPT ![g].pc = "check_ready"]
              /\ asr_pipeline' =
                    IF asr_pipeline.version = warm_tasks[g].pipeline
                    THEN [asr_pipeline EXCEPT !.recognizer = TRUE]
                    ELSE asr_pipeline
              /\ UNCHANGED <<selected, installed, asr_warmup, asr_warmup_generation,
                             last_known_good, kick, stale_write, warmup>>
              /\ UNCHANGED warm_frame
           \/ WarmTaskOnly(g, after_failure(warm_tasks[g]))

\* if is_current(app) { .. } / if !is_current(app) { return Ok(()) }: where
\* the task goes from the check at `pc`.
guarded_write(generation, pc) ==
    CASE pc = "check_ready" -> IF is_current(generation) THEN "write_ready" ELSE "done"
      [] pc = "check_target" -> IF is_current(generation) THEN "write_target" ELSE "snapshot"
      [] OTHER -> IF is_current(generation) THEN "write_error" ELSE "done"

\* The is_current check that precedes each write of the tracker
WarmCheck ==
    \E g \in 1..MaxGenerations :
        /\ warm_tasks[g].pc \in {"check_ready", "check_target", "check_error"}
        /\ WarmTaskOnly(g, [warm_tasks[g] EXCEPT
                               !.pc = guarded_write(g, warm_tasks[g].pc),
                               !.phase = IF warm_tasks[g].pc = "check_target"
                                         THEN 2 ELSE @])

\* warmup_selected_asr: tracker Ready for the selection, last known-good saved
WarmWriteReady ==
    \E g \in 1..MaxGenerations :
        /\ warm_tasks[g].pc = "write_ready"
        /\ warmup' = "Ready"
        /\ asr_warmup' = [warmed_selection |-> warm_tasks[g].selection,
                          target_selection |-> warm_tasks[g].selection,
                          last_error |-> FALSE]
        /\ last_known_good' = warm_tasks[g].selection
        /\ stale_write' = (stale_write \/ ~is_current(g))
        /\ warm_tasks' = [warm_tasks EXCEPT ![g].pc = "done"]
        /\ UNCHANGED <<selected, installed, asr_pipeline, asr_warmup_generation, kick>>
        /\ UNCHANGED warm_frame

\* warmup_current_asr: fall back to the last known-good selection, write it
\* to the settings and reload the pipeline
WarmFallback ==
    \E g \in 1..MaxGenerations :
        /\ warm_tasks[g].pc = "fallback"
        /\ LET fallback == IF last_known_good = NoSelection
                           THEN default_asr_selection ELSE last_known_good
           IN  IF fallback = selected
               THEN WarmTaskOnly(g, [warm_tasks[g] EXCEPT !.pc = "check_error"])
               ELSE /\ asr_pipeline.version < MaxPipelines
                    /\ selected' = fallback
                    /\ asr_pipeline' = new_pipeline(asr_pipeline.version + 1, fallback,
                                                    installed)
                    /\ warm_tasks' = [warm_tasks EXCEPT ![g].pc = "check_target",
                                                        ![g].selection = fallback]
                    /\ UNCHANGED <<installed, asr_warmup, asr_warmup_generation,
                                   last_known_good, kick, stale_write, warmup>>
                    /\ UNCHANGED warm_frame

\* warmup_current_asr: tracker.target_selection = Some(fallback)
WarmWriteTarget ==
    \E g \in 1..MaxGenerations :
        /\ warm_tasks[g].pc = "write_target"
        /\ asr_warmup' = [asr_warmup EXCEPT !.target_selection = warm_tasks[g].selection]
        /\ stale_write' = (stale_write \/ ~is_current(g))
        /\ warm_tasks' = [warm_tasks EXCEPT ![g].pc = "snapshot"]
        /\ UNCHANGED <<selected, installed, asr_pipeline, asr_warmup_generation,
                       last_known_good, kick, warmup>>
        /\ UNCHANGED warm_frame

\* warmup_current_asr: tracker.state = Error, last_error = Some(..)
WarmWriteError ==
    \E g \in 1..MaxGenerations :
        /\ warm_tasks[g].pc = "write_error"
        /\ warmup' = "Error"
        /\ asr_warmup' = [asr_warmup EXCEPT !.last_error = TRUE]
        /\ stale_write' = (stale_write \/ ~is_current(g))
        /\ warm_tasks' = [warm_tasks EXCEPT ![g].pc = "done"]
        /\ UNCHANGED <<selected, installed, asr_pipeline, asr_warmup_generation,
                       last_known_good, kick>>
        /\ UNCHANGED warm_frame

\* Launch: the pipeline is initialised from the settings and the manifest,
\* and setup's kickoff_asr_warmup is about to take the tracker lock.
WarmupInit ==
    /\ EngineIdle
    /\ PipelineIdle
    /\ session = "Idle"
    /\ hud_state = "idle"
    /\ warmup = "Warming"
    /\ hotkey_mode = "hold"
    /\ tasks = NoTasks
    /\ hud_session = <<>>
    /\ hud_during = "Idle"
    /\ caller = NoCaller
    /\ HotkeyIdle
    /\ AsrIdle
    /\ PasteIdle
    /\ LateIdle
    /\ selected \in Selections
    /\ installed \in SUBSET Selections
    /\ asr_pipeline = new_pipeline(1, selected, installed)
    /\ asr_warmup = NoTracker
    /\ asr_warmup_generation = 0
    /\ last_known_good \in Selections \cup {NoSelection}
    /\ warm_tasks = [g \in 1..MaxGenerations |-> NoWarmTask]
    /\ kick = "lock"
    /\ stale_write = FALSE

WarmupNext ==
    \/ UpdateSettings
    \/ KickoffLock
    \/ KickoffSpawn
    \/ ModelInstalled
    \/ UninstallModel
    \/ WarmSnapshot
    \/ WarmAssets
    \/ WarmPipeline
    \/ WarmLoad
    \/ WarmCheck
    \/ WarmWriteReady
    \/ WarmFallback
    \/ WarmWriteTarget
    \/ WarmWriteError
    \/ BeginDictation
    \/ StartWarm
    \/ StartLock
    \/ StartListen
    \/ StartHud

WarmupSpec == WarmupInit /\ [][WarmupNext]_vars

\* ------------------------------------------------------------------------
\* core/hotkeys.rs: register_shortcut, reregister and unregister called from
\* async commands that may run at the same time (RegSpec)
\* ------------------------------------------------------------------------
Shortcuts == {1, 2}

\* What the hotkey commands leave alone.
reg_frame == <<core_vars, asr_vars, paste_vars, warm_vars, model_vars, merge_vars, parts>>

\* The cell of a backend's listener.
listener_of(backend) == IF backend = "x11" THEN x11_listener ELSE evdev_listener

\* The threads whose EvdevListener / X11Listener (stop_tx, JoinHandle) is held
\* by a cell or by a stop() in progress.
held_threads ==
    ({evdev_listener, x11_listener} \cup {reg[c].taken : c \in Callers}
        \cup {reg[c].new : c \in Callers}) \ {NoThread}

\* Entry of unregister: `current` is read for the event, then
\* unregister_current is called.
\* Entry of reregister: returns when CURRENT_HOTKEY is already the settings'
\* shortcut.  Entry of register_shortcut: calls unregister_current.
RegBegin ==
    /\ reg_calls < MaxRegCalls
    /\ \E c \in Callers, op \in {"register_shortcut", "reregister", "unregister"},
          shortcut \in Shortcuts :
          /\ reg[c].pc = "idle"
          /\ reg' = [reg EXCEPT ![c] =
                        IF op = "reregister" /\ current_hotkey = shortcut
                        THEN NoReg
                        ELSE [NoReg EXCEPT !.op = op, !.pc = "unreg_read",
                                           !.shortcut = shortcut]]
    /\ reg_calls' = reg_calls + 1
    /\ UNCHANGED <<current_hotkey, evdev_listener, x11_listener, threads, x11_display,
                   spawned, overlap>>
    /\ UNCHANGED reg_frame

\* unregister_current: let current = { CURRENT_HOTKEY.read().clone() };
UnregRead ==
    \E c \in Callers :
        /\ reg[c].pc = "unreg_read"
        /\ reg' = [reg EXCEPT ![c] =
                      IF current_hotkey # NoShortcut
                      THEN [@ EXCEPT !.pc = "take", !.ctx = "unreg", !.backend = "evdev"]
                      ELSE [@ EXCEPT !.pc = "unreg_write"]]
        /\ UNCHANGED <<current_hotkey, evdev_listener, x11_listener, threads,
                       x11_display, reg_calls, spawned, overlap>>
        /\ UNCHANGED reg_frame

\* stop(): let listener = LISTENER.write().take();
StopTake ==
    \E c \in Callers :
        /\ reg[c].pc = "take"
        /\ reg' = [reg EXCEPT ![c].pc = "join",
                              ![c].taken = listener_of(reg[c].backend)]
        /\ IF reg[c].backend = "x11"
           THEN x11_listener' = NoThread /\ UNCHANGED evdev_listener
           ELSE evdev_listener' = NoThread /\ UNCHANGED x11_listener
        /\ UNCHANGED <<current_hotkey, threads, x11_display, reg_calls, spawned, overlap>>
        /\ UNCHANGED reg_frame

\* stop(): stop_tx.send(()) and thread.join() when a listener was taken.
\* From unregister_current the X11 stop follows the evdev stop; from start
\* the spawn follows.
StopJoin ==
    \E c \in Callers :
        /\ reg[c].pc = "join"
        /\ threads' = threads \ {reg[c].taken}
        /\ reg' = [reg EXCEPT ![c] =
                      IF reg[c].ctx = "start"
                      THEN [@ EXCEPT !.pc = "spawn", !.taken = NoThread]
                      ELSE IF reg[c].backend = "evdev"
                      THEN [@ EXCEPT !.pc = "take", !.backend = "x11", !.taken = NoThread]
                      ELSE [@ EXCEPT !.pc = "unreg_write", !.taken = NoThread]]
        /\ UNCHANGED <<current_hotkey, evdev_listener, x11_listener, x11_display,
                       reg_calls, spawned, overlap>>
        /\ UNCHANGED reg_frame

\* unregister_current: *CURRENT_HOTKEY.write() = None.  unregister returns;
\* register_shortcut goes on with the backend the session calls for.
UnregWrite ==
    \E c \in Callers :
        /\ reg[c].pc = "unreg_write"
        /\ current_hotkey' = NoShortcut
        /\ reg' = [reg EXCEPT ![c] =
                      IF reg[c].op = "unregister"
                      THEN NoReg
                      ELSE [@ EXCEPT !.pc = "take", !.ctx = "start",
                                     !.backend = IF x11_display THEN "x11" ELSE "evdev"]]
        /\ UNCHANGED <<evdev_listener, x11_listener, threads, x11_display, reg_calls,
                       spawned, overlap>>
        /\ UNCHANGED reg_frame

\* start(), after its stop(): parse_hotkey / connect may fail (X11 falls
\* back to evdev, evdev makes register_shortcut return Err); otherwise the
\* listener thread is spawned.
StartSpawn ==
    \E c \in Callers, ok \in BOOLEAN :
        /\ reg[c].pc = "spawn"
        /\ IF ok
           THEN /\ threads' = threads \cup {spawned + 1}
                /\ spawned' = spawned + 1
                /\ overlap' = (overlap \/ threads # {})
                /\ reg' = [reg EXCEPT ![c].pc = "store",
                                      ![c].new = spawned + 1]
           ELSE /\ reg' = [reg EXCEPT ![c] =
                              IF reg[c].backend = "x11"
                              THEN [@ EXCEPT !.pc = "take", !.backend = "evdev"]
                              ELSE NoReg]
                /\ UNCHANGED <<threads, spawned, overlap>>
        /\ UNCHANGED <<current_hotkey, evdev_listener, x11_listener, x11_display,
                       reg_calls>>
        /\ UNCHANGED reg_frame

\* start(): *LISTENER.write() = Some(Listener { stop_tx, thread });
StartStore ==
    \E c \in Callers :
        /\ reg[c].pc = "store"
        /\ IF reg[c].backend = "x11"
           THEN x11_listener' = reg[c].new /\ UNCHANGED evdev_listener
           ELSE evdev_listener' = reg[c].new /\ UNCHANGED x11_listener
        /\ reg' = [reg EXCEPT ![c].pc = "set_current", ![c].new = NoThread]
        /\ UNCHANGED <<current_hotkey, threads, x11_display, reg_calls, spawned, overlap>>
        /\ UNCHANGED reg_frame

\* register_shortcut: set_current_hotkey(shortcut)
SetCurrentHotkey ==
    \E c \in Callers :
        /\ reg[c].pc = "set_current"
        /\ current_hotkey' = reg[c].shortcut
        /\ reg' = [reg EXCEPT ![c].pc = "hud"]
        /\ UNCHANGED <<evdev_listener, x11_listener, threads, x11_display, reg_calls,
                       spawned, overlap>>
        /\ UNCHANGED reg_frame

\* register_shortcut: state.set_hud_state(app, "idle"), then the
\* hotkey-registered event
RegisteredHud ==
    \E c \in Callers :
        /\ reg[c].pc = "hud"
        /\ set_hud_state("idle", session)
        /\ reg' = [reg EXCEPT ![c] = NoReg]
        /\ UNCHANGED <<current_hotkey, evdev_listener, x11_listener, threads,
                       x11_display, reg_calls, spawned, overlap>>
        /\ UNCHANGED <<engine_vars, pipeline_vars, session, warmup, hotkey_mode, tasks,
                       caller, hotkey_vars, asr_vars, paste_vars, warm_vars, model_vars,
                       merge_vars, parts>>

\* run_loop: stop_rx.try_recv() is Err(Disconnected) once the listener's
\* stop_tx was dropped, and the thread returns.
OrphanExits ==
    /\ \E t \in threads \ held_threads : threads' = threads \ {t}
    /\ UNCHANGED <<current_hotkey, evdev_listener, x11_listener, x11_display, reg,
                   reg_calls, spawned, overlap>>
    /\ UNCHANGED reg_frame

RegInit ==
    /\ CoreIdle
    /\ AsrIdle
    /\ PasteIdle
    /\ WarmIdle
    /\ ModelIdle
    /\ MergeIdle
    /\ PartsIdle
    /\ current_hotkey = NoShortcut
    /\ evdev_listener = NoThread
    /\ x11_listener = NoThread
    /\ threads = {}
    /\ x11_display \in BOOLEAN
    /\ reg = [c \in Callers |-> NoReg]
    /\ reg_calls = 0
    /\ spawned = 0
    /\ overlap = FALSE

RegNext ==
    \/ RegBegin
    \/ UnregRead
    \/ StopTake
    \/ StopJoin
    \/ UnregWrite
    \/ StartSpawn
    \/ StartStore
    \/ SetCurrentHotkey
    \/ RegisteredHud
    \/ OrphanExits

RegSpec == RegInit /\ [][RegNext]_vars

\* ------------------------------------------------------------------------
\* models/service.rs: the download worker; models/manager.rs: the manifest;
\* AppState::queue_model_download and uninstall_model (DownloadSpec)
\* ------------------------------------------------------------------------
\* The names a job or an uninstall may carry: the assets and an unknown name.
UnknownAsset == 3
JobNames == AssetNames \cup {UnknownAsset}

\* What the worker and the model commands leave alone.
model_frame ==
    <<core_vars, asr_vars, paste_vars, reg_vars, merge_vars, parts, selected, asr_warmup,
      asr_warmup_generation, last_known_good, warm_tasks, kick, stale_write>>

\* The installed selections, as resolve_asr_model_dir finds them.
InstalledNames(list) == {n \in AssetNames : list[n].status = "Installed"}

\* ModelManager::save: File::create, then serde_json::to_writer_pretty.
\* When either fails the file is left with its old contents or truncated:
\* it does not hold the list that was to be saved.
save(ok, list) == IF ok THEN list ELSE "not saved"

\* download::plan_for (imported as build_download_plan): None only for an
\* asset without a source.
build_download_plan(asset) == asset.source

\* worker_loop: the closure of find_map on the asset named by the job.
\* Gives the asset as it is left and what the worker does next.
worker_select(asset) ==
    IF asset.status \notin {"NotInstalled", "Error"}
    THEN [asset |-> asset, next |-> "continue"]
    ELSE IF ~asset.source
    THEN [asset |-> [asset EXCEPT !.status = "Error", !.progress = 0],
          next |-> "continue"]
    ELSE [asset |-> [asset EXCEPT !.status = "Downloading", !.progress = 0],
          next |-> IF build_download_plan(asset) THEN "download" ELSE "continue"]

\* on_download_failure that leaves the asset's status as it is.
on_download_failure_keeps_status(asset) == asset

\* on_download_failure: asset.status = ModelStatus::Error(error.to_string())
on_download_failure(asset) == [asset EXCEPT !.status = "Error", !.progress = 0]

\* on_download_success: a CT2 model whose directory cannot be prepared
\* becomes Error; otherwise the size `recorded` and the checksum are set and
\* the asset becomes Installed.
on_download_success(asset, prepare_ok, file_found, recorded) ==
    LET measured == IF file_found
                    THEN [asset EXCEPT !.size_bytes = 1, !.checksum = TRUE]
                    ELSE asset
    IN  IF asset.kind = "WhisperCt2" /\ ~prepare_ok
        THEN [measured EXCEPT !.status = "Error", !.progress = 0]
        ELSE [measured EXCEPT !.size_bytes = recorded, !.checksum = TRUE,
                              !.status = "Installed", !.progress = 0]

\* on_progress: the size learned from Content-Length, the status with the
\* new progress.
on_progress(asset, calls, expected) ==
    [asset EXCEPT !.size_bytes = IF asset.size_bytes = 0 /\ expected THEN 1 ELSE @,
                  !.status = "Downloading",
                  !.progress = calls]

\* AppState::reload_pipeline: a new pipeline from the settings and the
\* manifest.
ReloadPipeline(list) ==
    /\ asr_pipeline.version < MaxPipelines
    /\ installed' = InstalledNames(list)
    /\ asr_pipeline' = new_pipeline(asr_pipeline.version + 1, selected,
                                    InstalledNames(list))

\* AppState::queue_model_download: service.queue(ModelDownloadJob { .. })
QueueDownload ==
    /\ Len(queued) < MaxJobs
    /\ \E name \in JobNames :
          /\ queue' = Append(queue, name)
          /\ queued' = Append(queued, name)
    /\ UNCHANGED <<assets, disk, save_failed, worker, begun, finished, installed,
                   asr_pipeline>>
    /\ UNCHANGED model_frame

\* worker_loop: the next job is received, its asset is selected under the
\* manager lock, the manifest is saved
WorkerBegin ==
    /\ worker.pc = "idle"
    /\ queue # <<>>
    /\ LET name == Head(queue)
           chosen == IF name \in AssetNames
                     THEN worker_select(assets[name])
                     ELSE [next |-> "continue"]
       IN  /\ queue' = Tail(queue)
           /\ begun' = Append(begun, name)
           /\ assets' = IF name \in AssetNames
                        THEN [assets EXCEPT ![name] = chosen.asset]
                        ELSE assets
           /\ worker' = IF chosen.next = "download"
                        THEN [pc |-> "downloading", name |-> name, calls |-> 0]
                        ELSE NoJob
           /\ finished' = IF chosen.next = "download" THEN finished
                          ELSE IF name \in AssetNames THEN chosen.asset.status
                          ELSE "none"
    /\ \E ok \in BOOLEAN :
          /\ disk' = save(ok, assets')
          /\ save_failed' = ~ok
    /\ UNCHANGED <<queued, installed, asr_pipeline>>
    /\ UNCHANGED model_frame

\* The progress callback of download_and_extract_with_progress: on_progress
WorkerProgress ==
    /\ worker.pc = "downloading"
    /\ worker.calls < MaxProgress
    /\ \E expected \in BOOLEAN :
          assets' = [assets EXCEPT ![worker.name] =
                        on_progress(@, worker.calls + 1, expected)]
    /\ worker' = [worker EXCEPT !.calls = @ + 1]
    /\ UNCHANGED <<disk, save_failed, queue, queued, begun, finished, installed,
                   asr_pipeline>>
    /\ UNCHANGED model_frame

\* The download returned Ok: on_download_success, save, reload_pipeline
WorkerSuccess ==
    /\ worker.pc = "downloading"
    /\ \E prepare_ok \in BOOLEAN, file_found \in BOOLEAN :
          assets' = [assets EXCEPT ![worker.name] =
                        on_download_success(@, prepare_ok, file_found, 1)]
    /\ \E ok \in BOOLEAN :
          /\ disk' = save(ok, assets')
          /\ save_failed' = ~ok
    /\ finished' = assets'[worker.name].status
    /\ worker' = NoJob
    /\ ReloadPipeline(assets')
    /\ UNCHANGED <<queue, queued, begun>>
    /\ UNCHANGED model_frame

\* The download returned Err: on_download_failure, save
WorkerFailure ==
    /\ worker.pc = "downloading"
    /\ assets' = [assets EXCEPT ![worker.name] = on_download_failure(@)]
    /\ \E ok \in BOOLEAN :
          /\ disk' = save(ok, assets')
          /\ save_failed' = ~ok
    /\ finished' = assets'[worker.name].status
    /\ worker' = NoJob
    /\ UNCHANGED <<queue, queued, begun, installed, asr_pipeline>>
    /\ UNCHANGED model_frame

\* AppState::uninstall_model: uninstall_by_name (which returns early when
\* the directory cannot be removed or the save fails), then reload_pipeline
UninstallAsset ==
    \E name \in JobNames, removed \in BOOLEAN, ok \in BOOLEAN :
        IF name \notin AssetNames
        THEN /\ removed /\ ok
             /\ ReloadPipeline(assets)
             /\ UNCHANGED <<assets, disk, save_failed, queue, worker, queued, begun,
                            finished>>
             /\ UNCHANGED model_frame
        ELSE IF ~removed
        THEN /\ ok
             /\ UNCHANGED <<assets, disk, save_failed, queue, worker, queued, begun,
                            finished, installed, asr_pipeline>>
             /\ UNCHANGED model_frame
        ELSE /\ assets' = [assets EXCEPT ![name] =
                              [@ EXCEPT !.checksum = FALSE, !.size_bytes = 0,
                                        !.status = "NotInstalled", !.progress = 0]]
             /\ disk' = save(ok, assets')
             /\ save_failed' = ~ok
             /\ IF ok
                THEN ReloadPipeline(assets')
                ELSE UNCHANGED <<installed, asr_pipeline>>
             /\ UNCHANGED <<queue, worker, queued, begun, finished>>
             /\ UNCHANGED model_frame

\* After ModelManager::new and initialize_models: the manifest is saved, no
\* asset is Downloading, the worker waits for its first job.
DownloadInit ==
    /\ CoreIdle
    /\ AsrIdle
    /\ PasteIdle
    /\ RegIdle
    /\ MergeIdle
    /\ PartsIdle
    /\ \E status \in [AssetNames -> {"NotInstalled", "Installed", "Error"}],
          source \in BOOLEAN :
          assets = [n \in AssetNames |->
                       Asset(IF n = default_asr_selection THEN "Parakeet" ELSE "WhisperCt2",
                             status[n],
                             IF status[n] = "Installed" THEN 1 ELSE 0,
                             status[n] = "Installed",
                             n = default_asr_selection \/ source)]
    /\ disk = assets
    /\ save_failed = FALSE
    /\ queue = <<>>
    /\ worker = NoJob
    /\ queued = <<>>
    /\ begun = <<>>
    /\ finished = "none"
    /\ selected = default_asr_selection
    /\ installed = InstalledNames(assets)
    /\ asr_pipeline = new_pipeline(1, selected, installed)
    /\ asr_warmup = NoTracker
    /\ asr_warmup_generation = 0
    /\ last_known_good = NoSelection
    /\ warm_tasks = [g \in 1..MaxGenerations |-> NoWarmTask]
    /\ kick = "none"
    /\ stale_write = FALSE

DownloadNext ==
    \/ QueueDownload
    \/ WorkerBegin
    \/ WorkerProgress
    \/ WorkerSuccess
    \/ WorkerFailure
    \/ UninstallAsset

DownloadSpec == DownloadInit /\ [][DownloadNext]_vars

\* ------------------------------------------------------------------------
\* models/manager.rs: register_defaults applied to a loaded manifest
\* (MergeSpec)
\* ------------------------------------------------------------------------
\* Option::None for ModelAsset.source; a source that is not the catalog's;
\* the source the catalog gives.
NoSource == 0
StaleSource == 1
BuiltinSource == 2
\* A version string that is not the catalog's, and the catalog's.
OldVersion == 1
BuiltinVersion == 2

\* The names of the built-in assets, and a name the catalog does not have.
CatalogNames == {1, 2}
ManifestNames == CatalogNames \cup {3}

\* default_assets(): the built-in catalog
default_assets ==
    <<[name |-> 1, kind |-> "Parakeet", version |-> BuiltinVersion,
       status |-> "NotInstalled", source |-> BuiltinSource],
      [name |-> 2, kind |-> "WhisperCt2", version |-> BuiltinVersion,
       status |-> "NotInstalled", source |-> BuiltinSource]>>

\* The entries a manifest file can hold.
ManifestEntries ==
    [name : ManifestNames, kind : {"Parakeet", "WhisperCt2", "Unknown"},
     version : {OldVersion, BuiltinVersion},
     status : {"NotInstalled", "Downloading", "Installed", "Error"},
     source : {NoSource, StaleSource, BuiltinSource}]

\* self.assets.iter_mut().find(|current| current.name == asset.name): the
\* index of the first entry with the name, 0 when there is none.
find_by_name(list, name) ==
    IF \E i \in 1..Len(list) : list[i].name = name
    THEN CHOOSE i \in 1..Len(list) :
            /\ list[i].name = name
            /\ \A j \in 1..(i - 1) : list[j].name # name
    ELSE 0

\* The update of an existing entry that takes kind and version whatever
\* the status is.
merge_existing_any_status(existing, asset) ==
    [existing EXCEPT !.source = asset.source, !.kind = asset.kind,
                     !.version = asset.version,
                     !.status = IF @ = "Error" THEN "NotInstalled" ELSE @]

\* register_defaults: the update of an existing entry from the built-in
\* asset of the same name
merge_existing(existing, asset) ==
    LET repaired == IF existing.source = NoSource \/ existing.source # asset.source
                    THEN [existing EXCEPT !.source = asset.source]
                    ELSE existing
    IN  IF repaired.status \in {"NotInstalled", "Error"}
        THEN [repaired EXCEPT !.kind = asset.kind, !.version = asset.version,
                              !.status = IF @ = "Error" THEN "NotInstalled" ELSE @]
        ELSE repaired

\* register_defaults: one turn of the loop over default_assets()
merge_one(list, asset) ==
    IF find_by_name(list, asset.name) = 0
    THEN Append(list, asset)
    ELSE [list EXCEPT ![find_by_name(list, asset.name)] = merge_existing(@, asset)]

RECURSIVE merge_all(_, _)
merge_all(list, catalog) ==
    IF catalog = <<>> THEN list
    ELSE merge_all(merge_one(list, Head(catalog)), Tail(catalog))

\* ModelManager::register_defaults
register_defaults(list) == merge_all(list, default_assets)

\* ModelManager::new: register_defaults on the manifest that was loaded
RegisterDefaults ==
    /\ merge_pc = "loaded"
    /\ merged' = register_defaults(loaded)
    /\ merge_pc' = "merged"
    /\ UNCHANGED <<loaded, merged_twice>>
    /\ UNCHANGED <<core_vars, asr_vars, paste_vars, warm_vars, reg_vars, model_vars, parts>>

\* ModelManager::new at the next launch: register_defaults on the manifest
\* that the first launch saved
RegisterDefaultsAgain ==
    /\ merge_pc = "merged"
    /\ merged_twice' = register_defaults(merged)
    /\ merge_pc' = "again"
    /\ UNCHANGED <<loaded, merged>>
    /\ UNCHANGED <<core_vars, asr_vars, paste_vars, warm_vars, reg_vars, model_vars, parts>>

\* A manifest the program has saved: at most MaxManifest entries, each name
\* once, listed here by ascending name.
MergeInit ==
    /\ CoreIdle
    /\ AsrIdle
    /\ PasteIdle
    /\ WarmIdle
    /\ RegIdle
    /\ ModelIdle
    /\ PartsIdle
    /\ \E n \in 0..MaxManifest :
          /\ loaded \in [1..n -> ManifestEntries]
          /\ \A i, j \in 1..n : i < j => loaded[i].name < loaded[j].name
    /\ merged = <<>>
    /\ merged_twice = <<>>
    /\ merge_pc = "loaded"

MergeNext ==
    \/ RegisterDefaults
    \/ RegisterDefaultsAgain

MergeSpec == MergeInit /\ [][MergeNext]_vars

\* ------------------------------------------------------------------------
\* models/download.rs: download_archive, and what worker_loop makes of its
\* result (ArchiveSpec)
\* ------------------------------------------------------------------------
\* Option::None for expected_size_bytes and expected_checksum.
NoExpectation == 0
\* The sizes and the checksums a downloaded file can have.
FileSizes == {1, 2}
Checksums == {1, 2}

\* The step goes on with the archive download as `a`; nothing else changes.
ArchiveStep(a) ==
    /\ parts' = [parts EXCEPT !.archive = a]
    /\ UNCHANGED main_vars

\* download_archive's checks that look at the size only.
archive_verify_size_only(plan, size, checksum) ==
    IF plan.expected_size # NoExpectation /\ size # plan.expected_size
    THEN "err" ELSE "ok"

\* download_archive: the size check, then the checksum check
archive_verify(plan, size, checksum) ==
    IF plan.expected_size # NoExpectation /\ size # plan.expected_size
    THEN "err"
    ELSE IF plan.expected_checksum # NoExpectation /\ checksum # plan.expected_checksum
    THEN "err"
    ELSE "ok"

\* download_archive: the staging directory is created and download_to_file
\* writes the staging file, or one of them fails
ArchiveDownload ==
    /\ parts.archive.pc = "download"
    /\ \/ ArchiveStep([parts.archive EXCEPT !.pc = "outcome", !.result = "err"])
       \/ \E size \in FileSizes, checksum \in Checksums :
             ArchiveStep([parts.archive EXCEPT !.pc = "verify", !.size = size,
                                               !.checksum = checksum])

\* download_archive: stat, size check, compute_sha256, checksum check
ArchiveVerify ==
    /\ parts.archive.pc = "verify"
    /\ \E io_ok \in BOOLEAN :
          IF io_ok /\ archive_verify(parts.archive, parts.archive.size,
                                     parts.archive.checksum) = "ok"
          THEN ArchiveStep([parts.archive EXCEPT !.pc = "replace"])
          ELSE ArchiveStep([parts.archive EXCEPT !.pc = "outcome", !.result = "err"])

\* download_archive: the destination is removed and created again, the
\* archive is extracted into it, the staging file is removed
ArchiveReplace ==
    /\ parts.archive.pc = "replace"
    /\ \E step \in {"remove", "create", "extract", "ok"} :
          CASE step = "remove" ->
                  /\ parts.archive.destination # "absent"
                  /\ \E left \in {"old", "partial"} :
                        ArchiveStep([parts.archive EXCEPT !.pc = "outcome",
                                        !.result = "err", !.destination = left])
            [] step = "create" ->
                  ArchiveStep([parts.archive EXCEPT !.pc = "outcome", !.result = "err",
                                                    !.destination = "absent"])
            [] step = "extract" ->
                  ArchiveStep([parts.archive EXCEPT !.pc = "outcome", !.result = "err",
                                  !.destination = "partial", !.extracted = TRUE])
            [] OTHER ->
                  ArchiveStep([parts.archive EXCEPT !.pc = "outcome", !.result = "ok",
                                  !.destination = "new", !.extracted = TRUE])

\* worker_loop: Ok(outcome) => on_download_success, Err(error) =>
\* on_download_failure
ArchiveOutcome ==
    /\ parts.archive.pc = "outcome"
    /\ \E prepare_ok \in BOOLEAN, file_found \in BOOLEAN :
          ArchiveStep([parts.archive EXCEPT
              !.pc = "done",
              !.asset = IF parts.archive.result = "ok"
                        THEN on_download_success(@, prepare_ok, file_found, 1)
                        ELSE on_download_failure(@)])

\* A job whose asset worker_loop has set to Downloading, with the plan that
\* plan_for made of the asset.
ArchiveInit ==
    /\ MainIdle
    /\ \E kind \in {"Parakeet", "WhisperCt2"}, expected_size \in {NoExpectation} \cup FileSizes,
          expected_checksum \in {NoExpectation} \cup Checksums,
          destination \in {"absent", "old"} :
          parts = [NoParts EXCEPT !.archive =
                      [pc |-> "download", expected_size |-> expected_size,
                       expected_checksum |-> expected_checksum, size |-> 0,
                       checksum |-> 0, destination |-> destination,
                       initial |-> destination, extracted |-> FALSE,
                       result |-> "none",
                       asset |-> Asset(kind, "Downloading", expected_size,
                                       expected_checksum # NoExpectation, TRUE)]]

ArchiveNext ==
    \/ ArchiveDownload
    \/ ArchiveVerify
    \/ ArchiveReplace
    \/ ArchiveOutcome

ArchiveSpec == ArchiveInit /\ [][ArchiveNext]_vars

\* ------------------------------------------------------------------------
\* models/manager.rs: primary_asset after on_download_success (PrimarySpec)
\* ------------------------------------------------------------------------
\* The sizes an asset can have recorded.
AssetSizes == {0, 1, 2}

\* The key of max_by_key: (status is Installed, size_bytes), compared as a
\* tuple.
primary_key(asset) ==
    (IF asset.status = "Installed" THEN 3 ELSE 0) + asset.size_bytes

\* ModelManager::primary_asset: Iterator::max_by_key over the assets of the
\* kind, which gives the last of several maximal elements; 0 for None.
primary_asset(list, kind) ==
    LET of_kind == {i \in 1..Len(list) : list[i].kind = kind}
    IN  IF of_kind = {} THEN 0
        ELSE CHOOSE i \in of_kind :
                /\ \A j \in of_kind : primary_key(list[j]) <= primary_key(list[i])
                /\ \A j \in of_kind : j > i => primary_key(list[j]) < primary_key(list[i])

\* on_download_success for the asset that was downloading, and the lookup
\* of the primary asset of its kind that follows (sync_vad_env,
\* resolve_asr_model_dir)
InstallThenPrimary ==
    /\ parts.primary.pc = "downloading"
    /\ \E i \in 1..Len(parts.primary.list), prepare_ok \in BOOLEAN,
          file_found \in BOOLEAN, recorded \in AssetSizes :
          /\ parts.primary.list[i].status = "Downloading"
          /\ LET list == [parts.primary.list EXCEPT ![i] =
                             on_download_success(@, prepare_ok, file_found, recorded)]
             IN  parts' = [parts EXCEPT !.primary =
                              [pc |-> "installed", list |-> list, job |-> i,
                               found |-> primary_asset(list, list[i].kind)]]
    /\ UNCHANGED main_vars

\* A manifest with one asset downloading, in any order.
PrimaryInit ==
    /\ MainIdle
    /\ \E n \in 1..MaxAssets :
          \E list \in [1..n -> {Asset(kind, status, size, status = "Installed", TRUE) :
                                   kind \in {"Parakeet", "WhisperCt2"},
                                   status \in {"NotInstalled", "Installed", "Downloading"},
                                   size \in AssetSizes}] :
             /\ Cardinality({i \in 1..n : list[i].status = "Downloading"}) = 1
             /\ parts = [NoParts EXCEPT !.primary =
                            [pc |-> "downloading", list |-> list, job |-> 0, found |-> 0]]

PrimaryNext == InstallThenPrimary

PrimarySpec == PrimaryInit /\ [][PrimaryNext]_vars

\* ------------------------------------------------------------------------
\* models/ct2.rs: prepare_ct2_model_dir (Ct2Spec)
\* ------------------------------------------------------------------------
\* A directory maps each file name to where a file of that name is: nowhere,
\* at the model root, or only in a subdirectory.
CoreFiles == <<"model.bin", "config.json", "tokenizer.json">>

VocabularyFiles == <<"vocabulary.txt", "vocabulary.json", "vocab.json", "vocab.txt">>

PREPROCESSOR_CONFIG_FILE == "preprocessor_config.json"

Ct2Names ==
    {CoreFiles[i] : i \in 1..Len(CoreFiles)}
        \cup {VocabularyFiles[i] : i \in 1..Len(VocabularyFiles)}
        \cup {PREPROCESSOR_CONFIG_FILE}

\* ensure_file_at_root: a file at the root is taken as it is; one found in a
\* subdirectory is renamed to the root, and a failed rename is an error.
ensure_file_at_root(dir, filename, rename_ok) ==
    IF dir[filename] = "root" THEN [dir |-> dir, ok |-> TRUE]
    ELSE IF dir[filename] = "nested" /\ rename_ok
         THEN [dir |-> [dir EXCEPT ![filename] = "root"], ok |-> TRUE]
         ELSE [dir |-> dir, ok |-> FALSE]

\* ensure_any_file_at_root: any candidate at the root is enough; otherwise
\* the first candidate, in the order of the list, found in a subdirectory is
\* moved to the root.
ensure_any_file_at_root(dir, candidates, rename_ok) ==
    IF \E i \in 1..Len(candidates) : dir[candidates[i]] = "root"
    THEN [dir |-> dir, ok |-> TRUE]
    ELSE LET nested == {i \in 1..Len(candidates) : dir[candidates[i]] = "nested"}
         IN  IF nested = {} THEN [dir |-> dir, ok |-> FALSE]
             ELSE ensure_file_at_root(
                      dir, candidates[CHOOSE i \in nested : \A j \in nested : i <= j],
                      rename_ok)

\* ensure_preprocessor_config on a directory dir whose preprocessor
\* configuration, if any, parses as JSON iff `parses`. A file at the root
\* is parsed; one found in a subdirectory is moved to the root and accepted
\* as it is; otherwise a default configuration is written. `create` is the
\* outcome of writing it: "ok", "no file" (File::create failed) or "partial"
\* (the write failed after the file was created).
ensure_preprocessor_config(dir, parses, rename_ok, create) ==
    IF dir[PREPROCESSOR_CONFIG_FILE] = "root"
    THEN [dir |-> dir, parses |-> parses, ok |-> parses]
    ELSE IF dir[PREPROCESSOR_CONFIG_FILE] = "nested" /\ rename_ok
    THEN [dir |-> [dir EXCEPT ![PREPROCESSOR_CONFIG_FILE] = "root"],
          parses |-> parses, ok |-> TRUE]
    ELSE IF create = "no file"
    THEN [dir |-> dir, parses |-> parses, ok |-> FALSE]
    ELSE [dir |-> [dir EXCEPT ![PREPROCESSOR_CONFIG_FILE] = "root"],
          parses |-> create = "ok", ok |-> create = "ok"]

\* prepare_ct2_model_dir: the three core files, a vocabulary file and the
\* preprocessor configuration, in this order, stopping at the first error.
prepare_ct2_model_dir(dir, parses, rename_ok, create) ==
    LET a == ensure_file_at_root(dir, CoreFiles[1], rename_ok)
        b == ensure_file_at_root(a.dir, CoreFiles[2], rename_ok)
        c == ensure_file_at_root(b.dir, CoreFiles[3], rename_ok)
        v == ensure_any_file_at_root(c.dir, VocabularyFiles, rename_ok)
    IN  IF ~a.ok THEN [dir |-> a.dir, parses |-> parses, ok |-> FALSE]
        ELSE IF ~b.ok THEN [dir |-> b.dir, parses |-> parses, ok |-> FALSE]
        ELSE IF ~c.ok THEN [dir |-> c.dir, parses |-> parses, ok |-> FALSE]
        ELSE IF ~v.ok THEN [dir |-> v.dir, parses |-> parses, ok |-> FALSE]
        ELSE ensure_preprocessor_config(v.dir, parses, rename_ok, create)

\* A call of prepare_ct2_model_dir on the model directory; the directory as
\* it was before the call is kept.
Ct2Prepare ==
    /\ parts.ct2.pc \in {"fresh", "prepared"}
    /\ \E rename_ok \in BOOLEAN, create \in {"ok", "no file", "partial"} :
          LET out == prepare_ct2_model_dir(parts.ct2.dir, parts.ct2.parses,
                                           rename_ok, create)
          IN  parts' = [parts EXCEPT !.ct2 =
                           [@ EXCEPT !.pc = IF parts.ct2.pc = "fresh"
                                            THEN "prepared" ELSE "again",
                                     !.before = parts.ct2.dir,
                                     !.before_parses = parts.ct2.parses,
                                     !.previous = parts.ct2.ok,
                                     !.dir = out.dir,
                                     !.parses = out.parses,
                                     !.ok = out.ok]]
    /\ UNCHANGED main_vars

\* Any existing model directory, before the first call.
Ct2Init ==
    /\ MainIdle
    /\ \E dir \in [Ct2Names -> {"none", "root", "nested"}], parses \in BOOLEAN :
          parts = [NoParts EXCEPT !.ct2 =
                      [pc |-> "fresh", initial |-> dir, dir |-> dir,
                       parses |-> parses, before |-> dir,
                       before_parses |-> parses, previous |-> FALSE, ok |-> FALSE]]

Ct2Next == Ct2Prepare

Ct2Spec == Ct2Init /\ [][Ct2Next]_vars

\* ------------------------------------------------------------------------
\* models/download.rs: list_hf_repo_files, download_hf_repo (HfSpec)
\* ------------------------------------------------------------------------
\* File names and patterns are sequences of characters; in a pattern "*" and
\* "**/" are the wildcards.
RepoFilenames ==
    { <<"c", ".", "j">>,
      <<"d", "/", "c", ".", "j">>,
      <<"m", ".", "o">>,
      <<"m", ".", "i", ".", "o">>,
      <<"d", "\\", "m", ".", "o">> }

GlobPatterns ==
    { <<"**/", "*", ".", "j">>,
      <<"**/", "*", ".", "o">>,
      <<"**/", "*", ".", "i", ".", "o">>,
      <<"d", "/", "*">>,
      <<"m", ".", "o">> }

\* rfilename.replace('\\', "/")
normalize_filename(name) ==
    [i \in 1..Len(name) |-> IF name[i] = "\\" THEN "/" ELSE name[i]]

\* A "**/" that stands for at least one directory.
RECURSIVE glob_match_nested_only(_, _)
glob_match_nested_only(pattern, name) ==
    IF pattern = <<>> THEN name = <<>>
    ELSE IF Head(pattern) = "*"
    THEN \E k \in 0..Len(name) :
            glob_match_nested_only(Tail(pattern), SubSeq(name, k + 1, Len(name)))
    ELSE IF Head(pattern) = "**/"
    THEN \E k \in 1..Len(name) :
            /\ name[k] = "/"
            /\ glob_match_nested_only(Tail(pattern), SubSeq(name, k + 1, Len(name)))
    ELSE /\ name # <<>>
         /\ Head(name) = Head(pattern)
         /\ glob_match_nested_only(Tail(pattern), Tail(name))

\* Glob::is_match with the default options of compile_globset: a character
\* matches itself, "*" any characters (the separator too), and a leading
\* "**/" nothing or any directories.
RECURSIVE glob_match(_, _)
glob_match(pattern, name) ==
    IF pattern = <<>> THEN name = <<>>
    ELSE IF Head(pattern) = "*"
    THEN \E k \in 0..Len(name) :
            glob_match(Tail(pattern), SubSeq(name, k + 1, Len(name)))
    ELSE IF Head(pattern) = "**/"
    THEN \/ glob_match(Tail(pattern), name)
         \/ \E k \in 1..Len(name) :
               /\ name[k] = "/"
               /\ glob_match(Tail(pattern), SubSeq(name, k + 1, Len(name)))
    ELSE /\ name # <<>>
         /\ Head(name) = Head(pattern)
         /\ glob_match(Tail(pattern), Tail(name))

\* GlobSet::is_match: some pattern of the set matches.
globset_is_match(set, name) == \E pattern \in set : glob_match(pattern, name)

\* The loop of list_hf_repo_files: the normalised names, in the order of the
\* siblings, that pass the include set (no set when the list is empty) and
\* the exclude set.
hf_filter(siblings, include, exclude) ==
    LET names == [i \in 1..Len(siblings) |-> normalize_filename(siblings[i])]
        keep(name) == /\ include = {} \/ globset_is_match(include, name)
                      /\ exclude = {} \/ ~globset_is_match(exclude, name)
    IN  SelectSeq(names, keep)

HfStep(h) ==
    /\ parts' = [parts EXCEPT !.hf = h]
    /\ UNCHANGED main_vars

\* list_hf_repo_files: the request for the metadata can fail.
ListHfRepoFiles ==
    /\ parts.hf.pc = "list"
    /\ \E fetched \in BOOLEAN :
          IF fetched
          THEN HfStep([parts.hf EXCEPT
                           !.pc = "listed",
                           !.files = hf_filter(parts.hf.siblings, parts.hf.include,
                                               parts.hf.exclude)])
          ELSE HfStep([parts.hf EXCEPT !.pc = "done", !.result = "err"])

\* The rest of download_hf_repo: no file is an error; otherwise every file
\* is downloaded into the staging directory, which replaces the destination.
DownloadHfRepo ==
    /\ parts.hf.pc = "listed"
    /\ \E io_ok \in BOOLEAN :
          IF parts.hf.files = <<>> \/ ~io_ok
          THEN HfStep([parts.hf EXCEPT !.pc = "done", !.result = "err"])
          ELSE HfStep([parts.hf EXCEPT
                           !.pc = "done", !.result = "ok",
                           !.destination =
                               {parts.hf.files[i] : i \in 1..Len(parts.hf.files)}])

\* A plan and a repository; the patterns of a list are kept as a set, which
\* is what a GlobSet makes of them.
HfInit ==
    /\ MainIdle
    /\ \E include \in SUBSET GlobPatterns, exclude \in SUBSET GlobPatterns,
          n \in 1..MaxSiblings :
          /\ Cardinality(include) <= MaxGlobs
          /\ Cardinality(exclude) <= MaxGlobs
          /\ \E siblings \in [1..n -> RepoFilenames] :
                parts = [NoParts EXCEPT !.hf =
                            [pc |-> "list", include |-> include, exclude |-> exclude,
                             siblings |-> siblings, files |-> <<>>,
                             destination |-> {}, result |-> "none"]]

HfNext == ListHfRepoFiles \/ DownloadHfRepo

HfSpec == HfInit /\ [][HfNext]_vars

\* ------------------------------------------------------------------------
\* core/pipeline.rs: update_metrics, record_cpu_load (PerfSpec)
\* ------------------------------------------------------------------------
\* Latencies in seconds and CPU load in percent, around the two thresholds;
\* hangovers in units of 100 ms.
Latencies == {1, 2, 3}

CpuLoads == {50, 75, 90}

DefaultHangovers == {1, 4}

SLOW_LATENCY == 2

HIGH_CPU == 75

PERFORMANCE_HANGOVER == 2

\* set_performance_override: the hangover of the VAD is the default one,
\* shortened to at most 200 ms while the override is on.
set_performance_override(m, enabled) ==
    [m EXCEPT !.hangover = IF enabled /\ m.default_hangover > PERFORMANCE_HANGOVER
                           THEN PERFORMANCE_HANGOVER ELSE m.default_hangover]

\* The test of a slow finalization with the CPU load included in "high".
is_slow_at_or_above(latency, average_cpu) ==
    latency > SLOW_LATENCY /\ average_cpu >= HIGH_CPU

\* The test of update_metrics for a slow finalization.
is_slow(latency, average_cpu) ==
    latency > SLOW_LATENCY /\ average_cpu > HIGH_CPU

\* update_metrics, under the metrics lock. slow_run counts the finalizations
\* in a row, since the mode was last left, that took more than 2 s with the
\* CPU at or above 75 %.
update_metrics(m, latency) ==
    LET counted == [m EXCEPT
                        !.op = "update_metrics",
                        !.samples = @ + 1,
                        !.last_latency = latency,
                        !.slow_run = IF latency > SLOW_LATENCY /\ m.average_cpu >= HIGH_CPU
                                     THEN @ + 1 ELSE 0]
    IN  IF is_slow(latency, m.average_cpu)
        THEN LET slow == [counted EXCEPT !.consecutive_slow = @ + 1]
             IN  IF slow.consecutive_slow >= 2 /\ ~slow.performance_mode
                 THEN [set_performance_override(slow, TRUE) EXCEPT
                           !.performance_mode = TRUE,
                           !.events = Append(@, "performance-warning")]
                 ELSE slow
        ELSE LET fast == [counted EXCEPT !.consecutive_slow = 0]
             IN  IF fast.performance_mode
                 THEN [set_performance_override(fast, FALSE) EXCEPT
                           !.performance_mode = FALSE,
                           !.slow_run = 0,
                           !.events = Append(@, "performance-recovered")]
                 ELSE fast

\* record_cpu_load, under the metrics lock.
record_cpu_load(m, cpu_fraction) ==
    LET sampled == [m EXCEPT !.op = "record_cpu_load",
                             !.samples = @ + 1,
                             !.average_cpu = cpu_fraction]
    IN  IF cpu_fraction < HIGH_CPU /\ sampled.performance_mode
        THEN [set_performance_override(sampled, FALSE) EXCEPT
                  !.performance_mode = FALSE,
                  !.consecutive_slow = 0,
                  !.slow_run = 0,
                  !.events = Append(@, "performance-recovered")]
        ELSE sampled

\* consume_result calls update_metrics with the latency of a finalization.
UpdateMetrics ==
    /\ parts.perf.op # "idle"
    /\ parts.perf.samples < MaxSamples
    /\ \E latency \in Latencies :
          parts' = [parts EXCEPT !.perf = update_metrics(@, latency)]
    /\ UNCHANGED main_vars

\* The CPU sampler calls record_cpu_load every 2 s.
RecordCpuLoad ==
    /\ parts.perf.op # "idle"
    /\ parts.perf.samples < MaxSamples
    /\ \E cpu_fraction \in CpuLoads :
          parts' = [parts EXCEPT !.perf = record_cpu_load(@, cpu_fraction)]
    /\ UNCHANGED main_vars

\* EngineMetrics::default and the hangover of the VAD configuration.
PerfInit ==
    /\ MainIdle
    /\ \E default_hangover \in DefaultHangovers :
          parts = [NoParts EXCEPT !.perf =
                      [op |-> "new", samples |-> 0, last_latency |-> 0,
                       consecutive_slow |-> 0, performance_mode |-> FALSE,
                       average_cpu |-> 0, default_hangover |-> default_hangover,
                       hangover |-> default_hangover, slow_run |-> 0,
                       events |-> <<>>]]

PerfNext == UpdateMetrics \/ RecordCpuLoad

PerfSpec == PerfInit /\ [][PerfNext]_vars

\* ------------------------------------------------------------------------
\* vad/engine.rs: VoiceActivityDetector over time (VadSpec)
\* ------------------------------------------------------------------------
\* Hangovers in units of 100 ms: the one of performance mode and the default.
Hangovers == {2, 4}

\* apply_hangover that keeps last_activation when the hangover has run out.
apply_hangover_keeping(v, speech_detected) ==
    IF speech_detected
    THEN [v EXCEPT !.last_activation = v.now, !.decision = "Active"]
    ELSE IF v.last_activation # None /\ v.now - v.last_activation < v.hangover
    THEN [v EXCEPT !.decision = "Active"]
    ELSE [v EXCEPT !.decision = "Inactive"]

\* VoiceActivityDetector::apply_hangover at the time v.now: speech stamps
\* last_activation; without speech the frame is Active while less than the
\* hangover has elapsed since last_activation, and otherwise last_activation
\* is cleared.
apply_hangover_at(v, speech_detected) ==
    IF speech_detected
    THEN [v EXCEPT !.last_activation = v.now, !.decision = "Active"]
    ELSE IF v.last_activation # None /\ v.now - v.last_activation < v.hangover
    THEN [v EXCEPT !.decision = "Active"]
    ELSE [v EXCEPT !.last_activation = None, !.decision = "Inactive"]

VadStep(v) ==
    /\ parts' = [parts EXCEPT !.vad = v]
    /\ UNCHANGED main_vars

\* evaluate on a frame in which the backend finds speech or not. The record
\* keeps what the frame met: the time of the last speech frame since the
\* last reset (speech_at), the same since the last reset or Inactive report
\* (fresh_at), and whether a frame was reported Inactive since the last
\* speech frame (was_inactive), and whether it is the first frame since a
\* reset.
VadEvaluate ==
    /\ parts.vad.op # "idle"
    /\ \E speech \in BOOLEAN :
          LET met == [parts.vad EXCEPT
                          !.op = "evaluate", !.speech = speech,
                          !.met = [speech_at |-> parts.vad.speech_at,
                                   fresh_at |-> parts.vad.fresh_at,
                                   was_inactive |-> parts.vad.was_inactive,
                                   first |-> parts.vad.unused]]
              out == apply_hangover_at(met, speech)
          IN  VadStep([out EXCEPT
                           !.unused = FALSE,
                           !.speech_at = IF speech THEN out.now ELSE @,
                           !.fresh_at = IF speech THEN out.now
                                        ELSE IF out.decision = "Inactive" THEN None
                                        ELSE @,
                           !.was_inactive = ~speech /\ (@ \/ out.decision = "Inactive")])

\* set_hangover, called by set_performance_override.
VadSetHangover ==
    /\ parts.vad.op # "idle"
    /\ \E duration \in Hangovers \ {parts.vad.hangover} :
          VadStep([parts.vad EXCEPT !.op = "set_hangover", !.hangover = duration])

\* reset
VadReset ==
    /\ parts.vad.op # "idle"
    /\ VadStep([parts.vad EXCEPT !.op = "reset", !.unused = TRUE,
                                 !.last_activation = None,
                                 !.speech_at = None, !.fresh_at = None,
                                 !.was_inactive = FALSE])

\* 100 ms pass.
VadTick ==
    /\ parts.vad.op # "idle"
    /\ parts.vad.now < MaxTime
    /\ VadStep([parts.vad EXCEPT !.op = "tick", !.now = @ + 1])

\* VoiceActivityDetector::new
VadInit ==
    /\ MainIdle
    /\ \E hangover \in Hangovers :
          parts = [NoParts EXCEPT !.vad =
                      [op |-> "new", unused |-> FALSE, now |-> 0,
                       hangover |-> hangover,
                       last_activation |-> None, decision |-> "none",
                       speech |-> FALSE, speech_at |-> None, fresh_at |-> None,
                       was_inactive |-> FALSE,
                       met |-> [speech_at |-> None, fresh_at |-> None,
                                was_inactive |-> FALSE, first |-> FALSE]]]

VadNext == VadEvaluate \/ VadSetHangover \/ VadReset \/ VadTick

VadSpec == VadInit /\ [][VadNext]_vars

\* ------------------------------------------------------------------------
\* audio/pipeline.rs: AudioPipeline::spawn, the capture callback (AudioSpec)
\* ------------------------------------------------------------------------
\* Capacities of the capture channel (bounded(16)) and of the subscriber
\* channel (bounded(64)), scaled down; frames are numbered as they are
\* emitted.
CAPTURE_CAPACITY == 1

SUBSCRIBER_CAPACITY == 2

\* Sender::try_send on a channel of the capacity: the frame is queued, or
\* refused when the channel is full.
try_send(channel, capacity, frame) ==
    IF Len(channel) < capacity
    THEN [channel |-> Append(channel, frame), sent |-> TRUE]
    ELSE [channel |-> channel, sent |-> FALSE]

AudioStep(a) ==
    /\ parts' = [parts EXCEPT !.audio = a]
    /\ UNCHANGED main_vars

\* The input callback of the capture stream with a full frame: try_send on
\* the capture channel; a refused frame is dropped.
CaptureCallback ==
    /\ parts.audio.worker # "idle"
    /\ ~parts.audio.synthetic
    /\ parts.audio.emitted < MaxEmitted
    /\ LET frame == parts.audio.emitted + 1
           r == try_send(parts.audio.tx, CAPTURE_CAPACITY, frame)
       IN  AudioStep([parts.audio EXCEPT
                          !.emitted = frame,
                          !.tx = r.channel,
                          !.dropped = IF r.sent THEN @ ELSE @ \cup {frame}])

\* One round of the worker loop with real capture: an event taken from the
\* capture channel by try_recv is passed on with Sender::send, which waits
\* while the subscriber channel is full.
WorkerForward ==
    /\ parts.audio.worker = "loop"
    /\ ~parts.audio.synthetic
    /\ parts.audio.tx # <<>>
    /\ LET frame == Head(parts.audio.tx)
           r == try_send(parts.audio.out, SUBSCRIBER_CAPACITY, frame)
       IN  IF r.sent
           THEN AudioStep([parts.audio EXCEPT !.tx = Tail(@), !.out = r.channel])
           ELSE AudioStep([parts.audio EXCEPT !.tx = Tail(@), !.worker = "send",
                                              !.sending = frame])

\* The send of the worker completes once the subscriber has made room.
WorkerSendCompletes ==
    /\ parts.audio.worker = "send"
    /\ Len(parts.audio.out) < SUBSCRIBER_CAPACITY
    /\ AudioStep([parts.audio EXCEPT !.worker = "loop", !.sending = 0,
                                     !.out = Append(@, parts.audio.sending)])

\* One round of the worker loop without real capture: a synthetic frame is
\* offered with try_send and dropped when the subscriber channel is full.
WorkerSynthetic ==
    /\ parts.audio.worker = "loop"
    /\ parts.audio.synthetic
    /\ parts.audio.emitted < MaxEmitted
    /\ LET frame == parts.audio.emitted + 1
           r == try_send(parts.audio.out, SUBSCRIBER_CAPACITY, frame)
       IN  AudioStep([parts.audio EXCEPT
                          !.emitted = frame,
                          !.out = r.channel,
                          !.dropped = IF r.sent THEN @ ELSE @ \cup {frame}])

\* The subscriber receives the next event.
SubscriberRecv ==
    /\ parts.audio.worker # "idle"
    /\ parts.audio.out # <<>>
    /\ AudioStep([parts.audio EXCEPT !.out = Tail(@),
                                     !.received = Append(@, Head(parts.audio.out))])

\* AudioPipeline::spawn, with real capture or falling back to synthetic
\* frames.
AudioInit ==
    /\ MainIdle
    /\ \E synthetic \in BOOLEAN :
          parts = [NoParts EXCEPT !.audio =
                      [worker |-> "loop", synthetic |-> synthetic, emitted |-> 0,
                       tx |-> <<>>, out |-> <<>>, sending |-> 0,
                       dropped |-> {}, received |-> <<>>]]

AudioNext ==
    \/ CaptureCallback
    \/ WorkerForward
    \/ WorkerSendCompletes
    \/ WorkerSynthetic
    \/ SubscriberRecv

AudioSpec == AudioInit /\ [][AudioNext]_vars

\* ------------------------------------------------------------------------
\* core/settings.rs: FrontendSettings, migrate_frontend_settings
\* (SettingsSpec)
\* ------------------------------------------------------------------------
\* A key that the stored JSON object does not have.
Absent == "(absent)"

\* The fields that migration reads or writes, with the values stored for
\* them: absent, empty, legacy, and others.
StoredValues ==
    [pushToTalkHotkey |-> {Absent, " ", "Alt+Shift+A", "F9"},
     toggleToTalkHotkey |-> {Absent, "", "Alt+Shift+S"},
     asrFamily |-> {Absent, "", "whisper"},
     whisperBackend |-> {Absent, "", "onnx"},
     whisperModel |-> {Absent, "", "large-v3"},
     whisperModelLanguage |-> {Absent, "", "en"},
     whisperPrecision |-> {Absent, ""},
     autocleanMode |-> {Absent, "polish", "off"},
     asrBackend |-> {Absent, "whisper", "parakeet", "sherpa"}]

DEFAULT_PUSH_TO_TALK_HOTKEY(linux) == IF linux THEN "RightAlt" ELSE "Ctrl+Space"

DEFAULT_TOGGLE_TO_TALK_HOTKEY(linux) == IF linux THEN "RightAlt" ELSE "Ctrl+Shift+Space"

\* FrontendSettings::default
default_frontend(linux) ==
    [push_to_talk_hotkey |-> DEFAULT_PUSH_TO_TALK_HOTKEY(linux),
     toggle_to_talk_hotkey |-> DEFAULT_TOGGLE_TO_TALK_HOTKEY(linux),
     asr_family |-> "parakeet",
     whisper_backend |-> "ct2",
     whisper_model |-> "small",
     whisper_model_language |-> "multi",
     whisper_precision |-> "int8",
     autoclean_mode |-> "fast",
     legacy_asr_backend |-> Absent]

\* Deserialize for FrontendSettings (serde(default, rename_all =
\* "camelCase")): a key that is absent takes the field of the default;
\* asrBackend is read into legacy_asr_backend (None when absent).
deserialize_frontend(doc, linux) ==
    LET d == default_frontend(linux)
        get(key, field) == IF doc[key] = Absent THEN d[field] ELSE doc[key]
    IN  [push_to_talk_hotkey |-> get("pushToTalkHotkey", "push_to_talk_hotkey"),
         toggle_to_talk_hotkey |-> get("toggleToTalkHotkey", "toggle_to_talk_hotkey"),
         asr_family |-> get("asrFamily", "asr_family"),
         whisper_backend |-> get("whisperBackend", "whisper_backend"),
         whisper_model |-> get("whisperModel", "whisper_model"),
         whisper_model_language |-> get("whisperModelLanguage", "whisper_model_language"),
         whisper_precision |-> get("whisperPrecision", "whisper_precision"),
         autoclean_mode |-> get("autocleanMode", "autoclean_mode"),
         legacy_asr_backend |-> doc.asrBackend]

\* Serialize for FrontendSettings: every field under its camelCase key,
\* legacy_asr_backend skipped.
serialize_frontend(s) ==
    [pushToTalkHotkey |-> s.push_to_talk_hotkey,
     toggleToTalkHotkey |-> s.toggle_to_talk_hotkey,
     asrFamily |-> s.asr_family,
     whisperBackend |-> s.whisper_backend,
     whisperModel |-> s.whisper_model,
     whisperModelLanguage |-> s.whisper_model_language,
     whisperPrecision |-> s.whisper_precision,
     autocleanMode |-> s.autoclean_mode,
     asrBackend |-> Absent]

\* str::trim().is_empty() for the stored hotkeys.
trim_is_empty(text) == text \in {"", " "}

\* The assignments of migrate_frontend_settings, one after the other, apart
\* from taking the legacy field.
migrate_fields(s, linux) ==
    LET hotkeys == [s EXCEPT
            !.push_to_talk_hotkey =
                IF trim_is_empty(@) THEN DEFAULT_PUSH_TO_TALK_HOTKEY(linux) ELSE @,
            !.toggle_to_talk_hotkey =
                IF trim_is_empty(@) THEN DEFAULT_TOGGLE_TO_TALK_HOTKEY(linux) ELSE @]
        legacy_keys == [hotkeys EXCEPT
            !.push_to_talk_hotkey =
                IF linux /\ @ = "Alt+Shift+A" THEN DEFAULT_PUSH_TO_TALK_HOTKEY(linux) ELSE @,
            !.toggle_to_talk_hotkey =
                IF linux /\ @ = "Alt+Shift+S" THEN DEFAULT_TOGGLE_TO_TALK_HOTKEY(linux) ELSE @]
        backend == [legacy_keys EXCEPT
            !.asr_family =
                IF s.legacy_asr_backend = Absent THEN @
                ELSE IF s.legacy_asr_backend = "whisper" THEN "whisper" ELSE "parakeet",
            !.whisper_backend =
                IF s.legacy_asr_backend = "whisper" THEN "onnx" ELSE @]
        filled == [backend EXCEPT
            !.asr_family = IF @ = "" THEN "parakeet" ELSE @,
            !.whisper_backend = IF @ = "" THEN "ct2" ELSE @,
            !.whisper_model = IF @ = "" THEN "small" ELSE @,
            !.whisper_model_language = IF @ = "" THEN "multi" ELSE @,
            !.whisper_precision = IF @ = "" THEN "int8" ELSE @]
        autoclean == [filled EXCEPT
            !.autoclean_mode = IF @ = "polish" THEN "fast" ELSE @]
    IN  [autoclean EXCEPT
            !.whisper_model_language =
                IF autoclean.whisper_model \in {"large-v3", "large-v3-turbo"}
                THEN "multi" ELSE @]

\* A migration that leaves the legacy field in place.
migrate_keeping_legacy(s, linux) == migrate_fields(s, linux)

\* migrate_frontend_settings: legacy_asr_backend is taken, so it is None
\* afterwards.
migrate_frontend_settings(s, linux) ==
    [migrate_fields(s, linux) EXCEPT !.legacy_asr_backend = Absent]

SettingsStep(s) ==
    /\ parts' = [parts EXCEPT !.settings = s]
    /\ UNCHANGED main_vars

\* load_settings: the stored object is parsed.
LoadSettings ==
    /\ parts.settings.pc \in {"stored", "persisted"}
    /\ SettingsStep([parts.settings EXCEPT
                         !.pc = "loaded",
                         !.frontend = deserialize_frontend(parts.settings.doc,
                                                           parts.settings.linux)])

\* read_frontend migrates the settings in memory.
ReadFrontend ==
    /\ parts.settings.pc \in {"loaded", "migrated"}
    /\ Len(parts.settings.passes) < MaxPasses
    /\ LET migrated == migrate_frontend_settings(parts.settings.frontend,
                                                 parts.settings.linux)
       IN  SettingsStep([parts.settings EXCEPT
                             !.pc = "migrated", !.frontend = migrated,
                             !.passes = Append(@, migrated)])

\* write_frontend with the settings that were read: they are migrated,
\* kept in memory and persisted.
WriteFrontend ==
    /\ parts.settings.pc = "migrated"
    /\ ~parts.settings.written
    /\ LET migrated == migrate_frontend_settings(parts.settings.frontend,
                                                 parts.settings.linux)
       IN  SettingsStep([parts.settings EXCEPT
                             !.pc = "persisted", !.written = TRUE,
                             !.frontend = migrated,
                             !.doc = serialize_frontend(migrated)])

\* Any stored settings, on a Linux build or another.
SettingsInit ==
    /\ MainIdle
    /\ \E linux \in BOOLEAN,
          doc \in [pushToTalkHotkey : StoredValues.pushToTalkHotkey,
                   toggleToTalkHotkey : StoredValues.toggleToTalkHotkey,
                   asrFamily : StoredValues.asrFamily,
                   whisperBackend : StoredValues.whisperBackend,
                   whisperModel : StoredValues.whisperModel,
                   whisperModelLanguage : StoredValues.whisperModelLanguage,
                   whisperPrecision : StoredValues.whisperPrecision,
                   autocleanMode : StoredValues.autocleanMode,
                   asrBackend : StoredValues.asrBackend] :
          parts = [NoParts EXCEPT !.settings =
                      [pc |-> "stored", linux |-> linux, doc |-> doc,
                       frontend |-> default_frontend(linux), passes |-> <<>>,
                       written |-> FALSE]]

SettingsNext == LoadSettings \/ ReadFrontend \/ WriteFrontend

SettingsSpec == SettingsInit /\ [][SettingsNext]_vars

\* ------------------------------------------------------------------------
\* core/pipeline.rs: process_frame and set_listening, lock by lock
\* (TrimSpec)
\* ------------------------------------------------------------------------
TrimStep(t) ==
    /\ parts' = [parts EXCEPT !.trim = t]
    /\ UNCHANGED main_vars

\* process_frame on the next frame: nothing is done unless listening.
FrameArrives ==
    /\ parts.trim.worker = "wait"
    /\ parts.trim.frames < MaxFrames
    /\ TrimStep([parts.trim EXCEPT
                     !.frames = @ + 1,
                     !.worker = IF parts.trim.listening THEN "record" ELSE "wait"])

\* trim.record with the decision of the VAD, under the lock of the trim
\* state.
FrameRecord ==
    /\ parts.trim.worker = "record"
    /\ \E active \in BOOLEAN :
          TrimStep([parts.trim EXCEPT
                        !.worker = "push",
                        !.vad_trim = record(@, active, parts.trim.frame_len)])

\* asr.push_samples, under the lock of the ring.
FramePush ==
    /\ parts.trim.worker = "push"
    /\ LET r == push_samples(parts.trim.ring,
                             NewSamples(parts.trim.pushed, parts.trim.frame_len))
       IN  TrimStep([parts.trim EXCEPT
                         !.worker = IF r.dropped > 0 THEN "note" ELSE "wait",
                         !.ring = r.buffer,
                         !.pushed = @ + parts.trim.frame_len,
                         !.noted = r.dropped])

\* trim.note_buffer_drop(dropped), under the lock of the trim state.
FrameNoteDrop ==
    /\ parts.trim.worker = "note"
    /\ TrimStep([parts.trim EXCEPT
                     !.worker = "wait",
                     !.noted = 0,
                     !.vad_trim = note_buffer_drop(@, parts.trim.noted)])

\* set_listening(true): the flag is stored; the resets follow.
ListenTrueStore ==
    /\ parts.trim.ctl = "ready"
    /\ parts.trim.calls < MaxListenCalls
    /\ TrimStep([parts.trim EXCEPT !.ctl = "reset_recognizer", !.calls = @ + 1,
                                   !.listening = TRUE])

\* set_listening(false): the flag is swapped; the resets follow when it was
\* not set, take_samples when it was.
ListenFalseSwap ==
    /\ parts.trim.ctl = "ready"
    /\ parts.trim.calls < MaxListenCalls
    /\ TrimStep([parts.trim EXCEPT
                     !.ctl = IF parts.trim.listening THEN "take_samples"
                             ELSE "reset_recognizer",
                     !.calls = @ + 1,
                     !.listening = FALSE])

\* asr.take_samples, under the lock of the ring.
ListenTakeSamples ==
    /\ parts.trim.ctl = "take_samples"
    /\ TrimStep([parts.trim EXCEPT !.ctl = "compute_trim_range",
                                   !.snapshot_len = Len(parts.trim.ring),
                                   !.ring = <<>>])

\* compute_trim_range on the snapshot, under the lock of the trim state;
\* the recognizer runs on the range, and the resets follow.
ListenComputeTrimRange ==
    /\ parts.trim.ctl = "compute_trim_range"
    /\ TrimStep([parts.trim EXCEPT
                     !.ctl = "reset_recognizer",
                     !.fin = [ran |-> TRUE,
                              snapshot_len |-> parts.trim.snapshot_len,
                              trim |-> parts.trim.vad_trim,
                              range |-> compute_trim_range(RATE_16K,
                                                           parts.trim.snapshot_len,
                                                           parts.trim.vad_trim)]])

\* reset_recognizer, under the lock of the ring (reset_vad follows and
\* touches neither the ring nor the trim state).
ListenResetRecognizer ==
    /\ parts.trim.ctl = "reset_recognizer"
    /\ TrimStep([parts.trim EXCEPT !.ctl = "reset_trim_state", !.ring = <<>>])

\* reset_trim_state, under the lock of the trim state; set_listening
\* returns.
ListenResetTrimState ==
    /\ parts.trim.ctl = "reset_trim_state"
    /\ TrimStep([parts.trim EXCEPT !.ctl = "ready", !.vad_trim = NoTrim])

\* A pipeline that is not listening, its ring empty, with the frame length
\* of its capture source.
TrimInit ==
    /\ MainIdle
    /\ \E frame_len \in FrameSizes :
          parts = [NoParts EXCEPT !.trim =
                      [ctl |-> "ready", worker |-> "wait", frame_len |-> frame_len,
                       listening |-> FALSE, ring |-> <<>>, pushed |-> 0,
                       vad_trim |-> NoTrim, noted |-> 0, frames |-> 0,
                       calls |-> 0, snapshot_len |-> 0, fin |-> NoFin]]

TrimNext ==
    \/ FrameArrives
    \/ FrameRecord
    \/ FramePush
    \/ FrameNoteDrop
    \/ ListenTrueStore
    \/ ListenFalseSwap
    \/ ListenTakeSamples
    \/ ListenComputeTrimRange
    \/ ListenResetRecognizer
    \/ ListenResetTrimState

TrimSpec == TrimInit /\ [][TrimNext]_vars

\* ------------------------------------------------------------------------
\* core/app_state.rs: one warmup task waiting for its model (EnsureSpec)
\* ------------------------------------------------------------------------
\* The statuses a manifest entry can have been saved with.
PersistedStatuses == {"NotInstalled", "Downloading", "Installed", "Error"}

\* The asset the selection needs, as the manifest entry of the model service.
EnsureAsset(status) == Asset("Parakeet", status, 0, status = "Installed", TRUE)

\* ModelManager::new: the status of the entry after load_manifest and
\* register_defaults.
status_after_launch(persisted) ==
    merge_existing([name |-> 1, kind |-> "Parakeet", version |-> BuiltinVersion,
                    status |-> persisted, source |-> BuiltinSource],
                   default_assets[1]).status

\* The process has started, the manifest is loaded and merged, no download
\* runs, and a warmup task of the latest generation enters
\* ensure_asr_assets_ready with the tracker Warming.
EnsureInit ==
    /\ MainIdle
    /\ \E persisted \in PersistedStatuses, service \in BOOLEAN :
          parts = [NoParts EXCEPT !.ensure =
                      [pc |-> "check", status |-> status_after_launch(persisted),
                       queued |-> FALSE, current |-> TRUE, warmup |-> "Warming",
                       service |-> service, jobs |-> 0, worker |-> "idle",
                       uninstalled |-> FALSE, persisted |-> persisted]]

\* ensure_asr_assets_ready: one turn of the loop, up to the sleep or the
\* return. resolve_asr_model_dir is Some for an installed model.
EnsureCheck ==
    /\ parts.ensure.pc = "check"
    /\ LET e == parts.ensure
       IN  parts' = [parts EXCEPT !.ensure =
              IF ~e.current THEN [e EXCEPT !.pc = "returned"]
              ELSE IF e.status = "Installed" THEN [e EXCEPT !.pc = "pipeline"]
              ELSE IF e.status = "Error" THEN [e EXCEPT !.pc = "failed"]
              ELSE IF e.status = "NotInstalled" /\ ~e.queued /\ e.service
              THEN [e EXCEPT !.pc = "sleep", !.queued = TRUE, !.jobs = @ + 1]
              ELSE [e EXCEPT !.pc = "sleep"]]
    /\ UNCHANGED main_vars

\* tokio::time::sleep(250 ms) in the loop has elapsed.
EnsureWake ==
    /\ parts.ensure.pc = "sleep"
    /\ parts' = [parts EXCEPT !.ensure.pc = "check"]
    /\ UNCHANGED main_vars

\* warmup_selected_asr after ensure_asr_assets_ready and its caller
\* warmup_current_asr: the pipeline wait ends within 10 s, the model loads or
\* fails, and the task of the latest generation writes the tracker.
EnsureFinish ==
    /\ parts.ensure.pc \in {"pipeline", "failed"}
    /\ \E model_ok \in BOOLEAN :
          LET e == parts.ensure
          IN  parts' = [parts EXCEPT !.ensure =
                 IF ~e.current THEN [e EXCEPT !.pc = "returned"]
                 ELSE [e EXCEPT !.pc = "returned",
                                !.warmup = IF e.pc = "pipeline" /\ model_ok
                                           THEN "Ready" ELSE "Error"]]
    /\ UNCHANGED main_vars

\* worker_loop: the next job of the channel is received and the asset is
\* selected for download or passed over.
EnsureWorkerBegin ==
    /\ parts.ensure.pc # "idle"
    /\ parts.ensure.worker = "idle"
    /\ parts.ensure.jobs > 0
    /\ LET chosen == worker_select(EnsureAsset(parts.ensure.status))
       IN  parts' = [parts EXCEPT !.ensure.jobs = @ - 1,
                                  !.ensure.status = chosen.asset.status,
                                  !.ensure.worker = IF chosen.next = "download"
                                                    THEN "downloading" ELSE "idle"]
    /\ UNCHANGED main_vars

\* worker_loop: the download ends, in on_download_success or
\* on_download_failure.
EnsureWorkerEnd ==
    /\ parts.ensure.worker = "downloading"
    /\ \E ok \in BOOLEAN :
          LET asset == EnsureAsset(parts.ensure.status)
          IN  parts' = [parts EXCEPT
                 !.ensure.worker = "idle",
                 !.ensure.status = IF ok
                                   THEN on_download_success(asset, TRUE, TRUE, 1).status
                                   ELSE on_download_failure(asset).status]
    /\ UNCHANGED main_vars

\* AppState::queue_model_download from the model list of the settings window.
EnsureUserQueue ==
    /\ parts.ensure.pc # "idle"
    /\ parts.ensure.service
    /\ parts.ensure.jobs < MaxJobs
    /\ parts' = [parts EXCEPT !.ensure.jobs = @ + 1]
    /\ UNCHANGED main_vars

\* ModelManager::uninstall_by_name on the asset (once).
EnsureUninstall ==
    /\ parts.ensure.pc # "idle"
    /\ ~parts.ensure.uninstalled
    /\ parts' = [parts EXCEPT !.ensure.status = "NotInstalled",
                              !.ensure.uninstalled = TRUE]
    /\ UNCHANGED main_vars

\* kickoff_asr_warmup: a newer generation replaces the task's.
EnsureSuperseded ==
    /\ parts.ensure.pc # "idle"
    /\ parts.ensure.current
    /\ parts' = [parts EXCEPT !.ensure.current = FALSE]
    /\ UNCHANGED main_vars

EnsureTask == EnsureCheck \/ EnsureWake \/ EnsureFinish
EnsureWorker == EnsureWorkerBegin \/ EnsureWorkerEnd

EnsureNext ==
    \/ EnsureCheck
    \/ EnsureWake
    \/ EnsureFinish
    \/ EnsureWorkerBegin
    \/ EnsureWorkerEnd
    \/ EnsureUserQueue
    \/ EnsureUninstall
    \/ EnsureSuperseded

EnsureSpec == EnsureInit /\ [][EnsureNext]_vars

\* The async runtime keeps running the task and the worker thread keeps
\* running; nothing is assumed of the user.
EnsureFairSpec ==
    /\ EnsureSpec
    /\ WF_vars(EnsureCheck)
    /\ WF_vars(EnsureWake)
    /\ WF_vars(EnsureFinish)
    /\ WF_vars(EnsureWorkerBegin)
    /\ WF_vars(EnsureWorkerEnd)

\* ------------------------------------------------------------------------
\* core/pipeline.rs: set_vad_config beside the metrics (PerfVadSpec)
\* ------------------------------------------------------------------------
\* set_vad_config, under the VAD lock: a new detector with the hangover of
\* the configuration, which also becomes the default hangover.
set_vad_config(m, hangover) ==
    [m EXCEPT !.op = "set_vad_config", !.samples = @ + 1,
              !.hangover = hangover, !.default_hangover = hangover]

\* configure_pipeline on the existing pipeline calls set_vad_config.
SetVadConfig ==
    /\ parts.perf.op # "idle"
    /\ parts.perf.samples < MaxSamples
    /\ \E hangover \in DefaultHangovers :
          parts' = [parts EXCEPT !.perf = set_vad_config(@, hangover)]
    /\ UNCHANGED main_vars

PerfVadNext == UpdateMetrics \/ RecordCpuLoad \/ SetVadConfig

PerfVadSpec == PerfInit /\ [][PerfVadNext]_vars

\* ------------------------------------------------------------------------
\* models/service.rs: the progress callback of worker_loop (ThrottleSpec)
\* ------------------------------------------------------------------------
\* Time in units of 50 ms, sizes in bytes.
MaxDownloaded == 5

EMIT_INTERVAL == 3

LONG_AGO == 100

\* The total of the download: unknown (None) or known.
Totals == {None, 4, 200}

ChunkSizes == {1, 2}

\* (progress_fraction(downloaded, total) * 100.0).floor()
progress_bucket(downloaded, total) ==
    IF total = None \/ total = 0 THEN 0
    ELSE IF downloaded >= total THEN 100
    ELSE (downloaded * 100) \div total

\* A callback that reports every chunk.
should_emit_always(t, downloaded) == TRUE

\* should_emit of the callback at the time t.now
should_emit(t, downloaded) ==
    \/ t.now - t.last_emit_at >= EMIT_INTERVAL
    \/ progress_bucket(downloaded, t.total) >= t.last_progress_bucket + 1
    \/ (t.total # None /\ t.total > 0 /\ downloaded >= t.total)

\* worker_loop before download_and_extract_with_progress: last_emit_at is
\* 5 s in the past and last_progress_bucket is -1.
ThrottleInit ==
    /\ MainIdle
    /\ \E total \in Totals :
          parts = [NoParts EXCEPT !.throttle =
                      [pc |-> "downloading", now |-> 0, total |-> total,
                       downloaded |-> 0, last_emit_at |-> 0 - LONG_AGO,
                       last_progress_bucket |-> 0 - 1,
                       emitted |-> 0, suppressed |-> 0,
                       prev |-> [at |-> 0, bucket |-> 0, complete |-> FALSE],
                       last |-> [at |-> 0, bucket |-> 0, complete |-> FALSE]]]

\* 50 ms pass.
ThrottleTick ==
    /\ parts.throttle.pc = "downloading"
    /\ parts.throttle.now < MaxTime
    /\ parts' = [parts EXCEPT !.throttle.now = @ + 1]
    /\ UNCHANGED main_vars

\* The callback on one chunk: on_progress is called, and the status event
\* emitted, when should_emit holds. prev and last are the two latest events.
ProgressCallback ==
    /\ parts.throttle.pc = "downloading"
    /\ \E size \in ChunkSizes :
          LET t == parts.throttle
              downloaded == t.downloaded + size
              bucket == progress_bucket(downloaded, t.total)
          IN  /\ downloaded <= MaxDownloaded
              /\ parts' = [parts EXCEPT !.throttle =
                     IF should_emit(t, downloaded)
                     THEN [t EXCEPT !.downloaded = downloaded,
                                    !.last_emit_at = t.now,
                                    !.last_progress_bucket = bucket,
                                    !.emitted = @ + 1,
                                    !.prev = t.last,
                                    !.last = [at |-> t.now, bucket |-> bucket,
                                              complete |-> t.total # None
                                                           /\ downloaded >= t.total]]
                     ELSE [t EXCEPT !.downloaded = downloaded,
                                    !.suppressed = @ + 1]]
    /\ UNCHANGED main_vars

ThrottleNext == ThrottleTick \/ ProgressCallback

ThrottleSpec == ThrottleInit /\ [][ThrottleNext]_vars

\* ------------------------------------------------------------------------
\* The session while the pipeline is replaced (SessionReloadSpec)
\* ------------------------------------------------------------------------
\* configure_pipeline with another device or ASR configuration, or
\* reload_pipeline: AppState.pipeline holds a pipeline built by
\* SpeechPipeline::new, which does not listen and whose ring is empty. A
\* task of complete_session that already holds its clone of the old pipeline
\* finalizes the old one, so the change takes effect for it afterwards.
ReplacePipeline ==
    /\ tasks.finalize = 0
    /\ listening' = FALSE
    /\ ResetAll
    /\ output_mode' = "Paste"
    /\ UNCHANGED <<sample_rate, fin>>
    /\ UNCHANGED <<session_vars, hotkey_vars, rest_vars>>

SessionReloadNext == SessionNext \/ ReplacePipeline

SessionReloadSpec == SessionInit /\ [][SessionReloadNext]_vars

\* ------------------------------------------------------------------------
\* core/pipeline.rs: start_audio_loop and Drop for SpeechPipelineInner
\* (TeardownSpec)
\* ------------------------------------------------------------------------
\* Who can hold a strong reference to the SpeechPipelineInner: AppState's
\* pipeline slot, a clone taken by a session task, and the frame worker
\* while it processes a frame.
Holders == {"slot", "clone", "worker"}

\* What joining the calling thread itself does: pthread_join fails with
\* EDEADLK and the standard library panics, or the thread waits for itself.
SelfJoinOutcomes == {"panic", "deadlock"}

\* Arc::drop by `holder`: the destructor runs on the thread that gives up
\* the last strong reference. Drop::drop takes the handle of the frame
\* worker and joins it; the channel of the audio pipeline is a field and
\* stays open until drop has returned.
arc_drop(t, holder, outcome) ==
    LET left == t.strong \ {holder}
    IN  IF left # {} \/ holder \notin t.strong
        THEN [t EXCEPT !.strong = left]
        ELSE IF holder = "worker"
        THEN [t EXCEPT !.strong = left, !.destructor = "worker", !.worker = outcome]
        ELSE [t EXCEPT !.strong = left, !.destructor = holder, !.joining = TRUE]

\* A pipeline in AppState's slot, its frame worker waiting in recv; a
\* session task may hold a clone. The audio source delivers frames or has
\* stalled.
TeardownInit ==
    /\ MainIdle
    /\ \E clone \in BOOLEAN, feed \in BOOLEAN :
          parts = [NoParts EXCEPT !.teardown =
                      [worker |-> "recv", strong |-> IF clone THEN {"slot", "clone"}
                                                     ELSE {"slot"},
                       pending |-> 0, feed |-> feed, lock |-> "free",
                       destructor |-> "none", joining |-> FALSE, waiting |-> FALSE]]

\* The audio worker sends a frame to the subscriber channel.
TeardownFrame ==
    /\ parts.teardown.worker # "idle"
    /\ parts.teardown.feed
    /\ parts.teardown.pending < SUBSCRIBER_CAPACITY
    /\ parts' = [parts EXCEPT !.teardown.pending = @ + 1]
    /\ UNCHANGED main_vars

\* The frame worker: receiver.recv() returns a frame and weak.upgrade()
\* gives a reference, or None once the strong count is zero.
TeardownWorkerRecv ==
    /\ parts.teardown.worker = "recv"
    /\ parts.teardown.pending > 0
    /\ parts' = [parts EXCEPT
                    !.teardown.pending = @ - 1,
                    !.teardown.worker = IF parts.teardown.strong # {}
                                        THEN "process" ELSE "exited",
                    !.teardown.strong = IF @ # {} THEN @ \cup {"worker"} ELSE @]
    /\ UNCHANGED main_vars

\* The frame worker: process_frame has returned and `inner` goes out of
\* scope.
TeardownWorkerRelease ==
    /\ parts.teardown.worker = "process"
    /\ \E outcome \in SelfJoinOutcomes :
          parts' = [parts EXCEPT !.teardown =
                       arc_drop([@ EXCEPT !.worker = "recv"], "worker", outcome)]
    /\ UNCHANGED main_vars

\* configure_pipeline or reload_pipeline: the pipeline lock is taken.
TeardownLock ==
    /\ parts.teardown.lock = "free"
    /\ "slot" \in parts.teardown.strong
    /\ parts' = [parts EXCEPT !.teardown.lock = "replacer"]
    /\ UNCHANGED main_vars

\* configure_pipeline or reload_pipeline: *guard = None under the pipeline
\* lock; the lock is released afterwards.
TeardownReplace ==
    /\ parts.teardown.lock = "replacer"
    /\ "slot" \in parts.teardown.strong
    /\ LET t == arc_drop(parts.teardown, "slot", "none")
       IN  parts' = [parts EXCEPT !.teardown =
                        IF t.joining THEN t ELSE [t EXCEPT !.lock = "free"]]
    /\ UNCHANGED main_vars

\* The session task drops its clone of the pipeline.
TeardownCloneDropped ==
    /\ "clone" \in parts.teardown.strong
    /\ parts' = [parts EXCEPT !.teardown = arc_drop(@, "clone", "none")]
    /\ UNCHANGED main_vars

\* Drop::drop: handle.join() returns when the frame worker has exited.
TeardownJoined ==
    /\ parts.teardown.joining
    /\ parts.teardown.worker = "exited"
    /\ parts' = [parts EXCEPT !.teardown.joining = FALSE,
                              !.teardown.lock = IF parts.teardown.destructor = "slot"
                                                THEN "free" ELSE @]
    /\ UNCHANGED main_vars

\* start_session or complete_session asks for the pipeline lock and waits
\* while it is held; it goes on once the lock is free.
TeardownCaller ==
    /\ parts.teardown.worker # "idle"
    /\ parts.teardown.waiting # (parts.teardown.lock # "free")
    /\ parts' = [parts EXCEPT !.teardown.waiting = (parts.teardown.lock # "free")]
    /\ UNCHANGED main_vars

TeardownNext ==
    \/ TeardownFrame
    \/ TeardownWorkerRecv
    \/ TeardownWorkerRelease
    \/ TeardownLock
    \/ TeardownReplace
    \/ TeardownCloneDropped
    \/ TeardownJoined
    \/ TeardownCaller

TeardownSpec == TeardownInit /\ [][TeardownNext]_vars

\* Every thread keeps running, and a source that has not stalled keeps
\* sending frames.
TeardownFairSpec ==
    /\ TeardownSpec
    /\ WF_vars(TeardownFrame)
    /\ WF_vars(TeardownWorkerRecv)
    /\ WF_vars(TeardownWorkerRelease)
    /\ WF_vars(TeardownReplace)
    /\ WF_vars(TeardownCloneDropped)
    /\ WF_vars(TeardownJoined)
    /\ WF_vars(TeardownCaller)

\* ------------------------------------------------------------------------
\* Properties of the ring (RingSpec)
\* ------------------------------------------------------------------------
\* The samples the ring holds are the most recently pushed ones, in order.
MostRecentKept == buffer = NewSamples(pushed - Len(buffer), Len(buffer))

\* C8 (as stated): the ring never holds more than 120 seconds of audio at the
\* pipeline's sample rate (120 x sample_rate samples), its length is
\* pushed - dropped, and the samples kept are the most recent ones.
C8_RingWithin120SecondsOfRate ==
    /\ Len(buffer) <= MAX_SECONDS * sample_rate
    /\ Len(buffer) = pushed - dropped
    /\ MostRecentKept

\* What holds at every rate: the ring never holds more than 120 x 16 000
\* samples (120 seconds of audio at 16 kHz only), its length is
\* pushed - dropped, and the samples kept are the most recently pushed ones.
RingWithinFixedCap ==
    /\ Len(buffer) <= MAX_SAMPLES
    /\ (sample_rate >= RATE_16K => Len(buffer) <= MAX_SECONDS * sample_rate)
    /\ Len(buffer) = pushed - dropped
    /\ MostRecentKept

\* A full ring that has dropped samples, at a rate below 16 kHz.
FullRingBelow16kReached ==
    /\ dropped > 0
    /\ Len(buffer) = MAX_SAMPLES
    /\ sample_rate < RATE_16K

\* ------------------------------------------------------------------------
\* Properties of finalization (PipelineSpec)
\* ------------------------------------------------------------------------
\* C9: for a snapshot of buffer_len samples, compute_trim_range answers
\* no-audio when buffer_len = 0; no-speech when no active frame was recorded
\* or fewer than 350 ms of samples were active; otherwise
\* start = max(first_active - 200 ms, buffer_start) and
\* end = min(last_active + 500 ms, buffer_end), with end taken to buffer_end
\* when the silence after last_active is at most 600 ms; trim-rejected when
\* end <= start, else the pair (start - buffer_start, end - buffer_start).
C9_TrimRangeAsStated ==
    (fin.ran /\ fin.was_listening) =>
        LET t == fin.trim
            buffer_len == fin.snapshot_len
            buffer_start == t.buffer_start
            buffer_end == buffer_start + buffer_len
            start == Max(t.first_active - MsToSamples(VAD_PRE_ROLL_MS, sample_rate),
                         buffer_start)
            silence == SatSub(buffer_end, t.last_active)
            end == IF silence <= MsToSamples(VAD_MAX_TRAILING_SILENCE_MS, sample_rate)
                   THEN buffer_end
                   ELSE Min(t.last_active + MsToSamples(VAD_POST_ROLL_MS, sample_rate),
                            buffer_end)
        IN  IF buffer_len = 0
            THEN ~fin.range.ok /\ fin.range.code = "no-audio"
            ELSE IF \/ t.first_active = None
                    \/ t.active_samples < MsToSamples(VAD_MIN_SPEECH_MS, sample_rate)
            THEN ~fin.range.ok /\ fin.range.code = "no-speech"
            ELSE IF end <= start
            THEN ~fin.range.ok /\ fin.range.code = "trim-rejected"
            ELSE /\ fin.range.ok
                 /\ fin.range.start = start - buffer_start
                 /\ fin.range.end = end - buffer_start
                 /\ 0 <= fin.range.start
                 /\ fin.range.start < fin.range.end
                 /\ fin.range.end <= buffer_len

\* A finalization whose ring had dropped samples and whose range cuts both
\* the head and the tail of the snapshot.
C9_Witness ==
    /\ fin.ran
    /\ fin.was_listening
    /\ fin.range.ok
    /\ fin.trim.buffer_start > 0
    /\ fin.range.start > 0
    /\ fin.range.end < fin.snapshot_len

\* A finalization that ends in trim-rejected.
TrimRejectedReached ==
    fin.ran /\ fin.was_listening /\ fin.range.code = "trim-rejected"

IsOutput(e) == e.name = "transcription-output"

\* C10: no transcription-output event carries an empty (or blank) text, and
\* a session whose snapshot is empty, or holds no detected speech, ends with
\* one transcription-skipped event (no-audio, no-speech) without the
\* recognizer being asked.
C10_NoEmptyOutput ==
    fin.ran =>
        /\ \A i \in 1..Len(fin.events) :
              IsOutput(fin.events[i]) =>
                 fin.events[i].text # <<>> /\ str_trim(fin.events[i].text) # <<>>
        /\ (fin.was_listening /\ fin.snapshot_len = 0) =>
              fin.events = <<Skipped("no-audio")>> /\ ~fin.asr_called
        /\ ( /\ fin.was_listening
             /\ fin.snapshot_len > 0
             /\ \/ fin.trim.first_active = None
                \/ fin.trim.active_samples < MsToSamples(VAD_MIN_SPEECH_MS, sample_rate) ) =>
              fin.events = <<Skipped("no-speech")>> /\ ~fin.asr_called

\* A finalization that emitted a transcription-output and then failed to
\* paste it.
C10_Witness ==
    /\ fin.ran
    /\ fin.was_listening
    /\ \E i \in 1..Len(fin.events) : IsOutput(fin.events[i])
    /\ \E i \in 1..Len(fin.events) : fin.events[i].name = "paste-failed"

\* A finalization of a snapshot with audio but no detected speech.
NoSpeechSkipReached ==
    /\ fin.ran
    /\ fin.was_listening
    /\ fin.snapshot_len > 0
    /\ fin.events = <<Skipped("no-speech")>>

\* ------------------------------------------------------------------------
\* Properties of the session (SessionSpec, SessionFairSpec)
\* ------------------------------------------------------------------------
AllowedChanges ==
    {<<"Idle", "Listening">>, <<"Listening", "Processing">>,
     <<"Processing", "Idle">>, <<"Idle", "Processing">>}

\* C1: under every interleaving of start_session, mark_processing,
\* complete_session, secure_blocked and the finalize tasks, each change of the
\* session state is Idle->Listening, Listening->Processing, Processing->Idle
\* or Idle->Processing; the state never goes from Listening to Idle.
C1_OnlyAllowedChanges ==
    [][session' # session => <<session, session'>> \in AllowedChanges]_vars

\* C2 (as stated): whenever the session state is Processing it eventually
\* becomes Idle and hud-state idle is emitted, whichever operation put it
\* into Processing, when tasks are scheduled fairly.
C2_ProcessingLeadsToIdle ==
    /\ (session = "Processing") ~> (session = "Idle")
    /\ (session = "Processing") ~> (hud_state = "idle")

\* A finalize task is pending that has not yet set the session state.
FinalizePending == tasks.finalize + tasks.set_idle > 0

\* C2 (amended): whenever the session state is Processing and a finalize
\* task spawned by complete_session has yet to set the state, the state
\* eventually becomes Idle and hud-state idle is emitted, whatever the
\* finalize outcome, when tasks are scheduled fairly.
C2_ProcessingWithTaskLeadsToIdle ==
    /\ (session = "Processing" /\ FinalizePending) ~> (session = "Idle")
    /\ (session = "Processing" /\ FinalizePending) ~> (hud_state = "idle")

\* A session whose finalization reported an error is back to Idle, hud idle.
C2_Witness ==
    /\ fin.ran
    /\ fin.was_listening
    /\ HasError(fin.events)
    /\ session = "Idle"
    /\ hud_state = "idle"
    /\ TaskCount = 0

\* C3: the hud states emitted for a session are a prefix of
\* [listening, processing, idle]: idle is never emitted while the session is
\* Listening, and processing is never skipped or repeated.  (Stated for the
\* sessions that started, whose first hud state is listening.)
C3_HudSequence ==
    /\ (hud_session # <<>> /\ hud_session[1] = "listening") =>
          IsPrefix(hud_session, HudOrder("listening"))
    /\ hud_state = "idle" => hud_during # "Listening"

StartFrame ==
    /\ session' = session
    /\ listening' = listening
    /\ buffer' = buffer
    /\ last_activation' = last_activation
    /\ vad_trim' = vad_trim

StartIgnoredReached ==
    caller.pc = "start_lock" /\ session = "Processing"

\* The handler of a hotkey edge ends with this step.
HotkeyHandlerEnds == caller.op = "hotkey" /\ caller' = NoCaller

\* C5: in hold mode a Pressed edge while Idle starts a session (ASR warm) and
\* a Released edge while Listening moves the session to Processing and starts
\* finalization; in toggle mode Released edges have no effect, a Pressed edge
\* while Idle starts a session, and a Pressed edge while Listening moves the
\* session to Processing and starts finalization.
C5_HotkeyTable ==
    /\ [](caller.op = "hotkey" /\ caller.mode = "toggle" => caller.edge = "Pressed")
    /\ [][HotkeyHandlerEnds =>
            /\ (caller.edge = "Pressed" /\ caller.at = "Idle" /\ caller.pc # "start_warm")
                  => caller.pc = "start_hud" /\ caller.started
            /\ ((caller.edge = "Released" \/ caller.mode = "toggle") /\ caller.at = "Listening")
                  => /\ caller.marked
                     /\ caller.pc = "complete_spawn"
                     /\ tasks'.finalize = tasks.finalize + 1
         ]_vars

\* ------------------------------------------------------------------------
\* Properties of the raw-input hotkey listener (HotkeySpec)
\* ------------------------------------------------------------------------
TriggerDown == \E k \in devices : <<k, TriggerKey>> \in keys_down

IsTriggerEvent(e, value) == e.kind = "key" /\ e.key = TriggerKey /\ e.value = value

\* C6: after a Pressed edge, a Released edge is emitted when the trigger key
\* next returns to value 0, whatever the order in which trigger and modifiers
\* are released and whether or not a keyboard was added or removed in
\* between, unless the listener is stopped; the latch never stays set after
\* the trigger key has been physically released.
C6_ReleasedFollowsPressed ==
    [][ /\ (owed /\ IsTriggerEvent(event', 0)) =>
              (~owed' /\ edges' = Append(edges, "Released"))
        /\ is_pressed' => TriggerDown'
      ]_vars

\* The trigger key is up on every keyboard and the latch is still set.
LatchStuckReached == is_pressed /\ ~TriggerDown

Alternates(seq) ==
    \A i \in 1..Len(seq) : seq[i] = IF i % 2 = 1 THEN "Pressed" ELSE "Released"

\* C7: for every sequence of key events from any number of keyboards,
\* interleaved with device changes, the edges emitted strictly alternate
\* Pressed, Released, ... starting with Pressed: Pressed only on a value-1
\* trigger event while the latch is clear and the required modifiers are
\* held, Released only on a value-0 trigger event while the latch is set,
\* and a value-2 event emits nothing and changes neither latch nor held set.
C7_EdgesAlternate ==
    [][ /\ Alternates(edges')
        /\ (edges' # edges /\ edges'[Len(edges')] = "Pressed") =>
              /\ IsTriggerEvent(event', 1)
              /\ ~is_pressed
              /\ modifiers_satisfied(required_ctrl, held_ctrl')
        /\ (edges' # edges /\ edges'[Len(edges')] = "Released") =>
              /\ IsTriggerEvent(event', 0)
              /\ is_pressed
        /\ (event'.kind = "key" /\ event'.value = 2) =>
              UNCHANGED <<edges, is_pressed, held_ctrl>>
      ]_vars

WrongRateRefusedReached ==
    /\ asr_call.called
    /\ asr_call.sample_rate # RATE_16K
    /\ asr_call.samples > 0
    /\ asr_call.result.kind = "err"

\* ------------------------------------------------------------------------
\* Properties of paste_text (PasteSpec)
\* ------------------------------------------------------------------------
PasteFailed == paste_result.returned /\ ~paste_result.ok

\* C12: the paste chord is sent only after the clipboard was observed equal
\* to the transcript; when equality is not observed within the polling
\* window paste_text returns {ClipboardWrite, Unconfirmed,
\* transcript_on_clipboard = true}, with no chord sent and no clipboard write
\* after the first one.
C12_ChordOnlyAfterConfirmation ==
    /\ chord_sent => observed
    /\ paste_pc \in {"chord", "hold", "check", "restore"} => observed
    /\ (PasteFailed /\ paste_result.at = "wait") =>
          /\ ~observed
          /\ paste_result.step = "ClipboardWrite"
          /\ paste_result.kind = "Unconfirmed"
          /\ paste_result.transcript_on_clipboard
          /\ ~chord_sent
          /\ clip_writes = 1
          /\ restored_over = "none"
    /\ (paste_result.returned /\ ~observed) =>
          PasteFailed /\ paste_result.at \in {"set", "wait"}

\* The polling window ended without the transcript being seen, after the
\* clipboard was changed by someone else.
C12_Witness ==
    /\ PasteFailed
    /\ paste_result.at = "wait"
    /\ clip_changes > 0
    /\ clipboard # Transcript

\* The chord was sent and the previous contents restored.
PasteSucceededReached ==
    paste_result.returned /\ paste_result.ok /\ chord_sent /\ clipboard = previous

\* C13: paste_text never writes the saved previous contents over a clipboard
\* whose contents differ from the transcript: a change made at any point
\* after the chord is sent is never overwritten by the restore step.
C13_RestoreNeverOverwritesChange ==
    restored_over \in {"none", Transcript}

\* A change made during the hold window was seen and left in place.
ChangeInHoldKeptReached ==
    /\ PasteFailed
    /\ paste_result.at = "check"
    /\ clipboard # Transcript
    /\ clip_writes = 1

\* C14 (as stated): every PasteFailure, Failed or Unconfirmed, leaves the
\* previous contents unrestored and reports transcript_on_clipboard = true.
C14_EveryFailureKeepsTranscript ==
    PasteFailed =>
        /\ restored_over = "none"
        /\ paste_result.transcript_on_clipboard

\* C14 (amended): every PasteFailure leaves the previous contents
\* unrestored, and reports transcript_on_clipboard = true except when the
\* first clipboard write failed or the clipboard was found changed after the
\* hold window, where it reports false.
C14_FailureKeepsTranscriptUnlessLost ==
    PasteFailed =>
        /\ restored_over = "none"
        /\ paste_result.kind \in {"Failed", "Unconfirmed"}
        /\ paste_result.transcript_on_clipboard <=>
              ~(clip_writes = 0 \/ (chord_sent /\ previous # "none" /\ paste_result.at = "check"))

\* The chord could not be sent and the transcript was written again.
C14_Witness ==
    /\ PasteFailed
    /\ paste_result.step = "KeyInject"
    /\ clip_writes = 2
    /\ clipboard = Transcript
    /\ paste_result.transcript_on_clipboard

\* ------------------------------------------------------------------------
\* Properties of the ASR warmup (WarmupSpec)
\* ------------------------------------------------------------------------
\* The task of the latest generation has been spawned and has not ended.
LatestTaskRunning ==
    /\ asr_warmup_generation > 0
    /\ warm_tasks[asr_warmup_generation].pc # "done"

\* C15: a warmup task whose generation is no longer the latest never writes
\* the tracker or the last known-good selection, and after a kickoff the
\* tracker stays Warming until the task of the new generation ends.
C15_StaleTaskNeverWrites ==
    /\ ~stale_write
    /\ kick = "spawn" => warmup = "Warming"
    /\ LatestTaskRunning => warmup = "Warming"

\* A task found itself superseded at a check and ended without writing.
StaleTaskBailedReached ==
    /\ asr_warmup_generation = 2
    /\ warm_tasks[1].pc = "done"
    /\ warm_tasks[2].pc = "done"
    /\ warmup = "Ready"
    /\ ~stale_write

\* C16: whenever start_session moves the session to Listening, the current
\* pipeline has its selected model installed and its recognizer constructed.
C16_ListeningOnlyWhenWarm ==
    [][(session' = "Listening" /\ session # "Listening") =>
          (asr_pipeline.model_dir /\ asr_pipeline.recognizer)]_vars

\* A session started on a pipeline whose recognizer was constructed.
\* No warmup task is running nor about to be spawned, the tracker says Ready,
\* and a session listens on a pipeline that holds no recognizer.
ColdListenNoTaskReached ==
    /\ session = "Listening"
    /\ warmup = "Ready"
    /\ kick = "none"
    /\ \A g \in 1..MaxGenerations : warm_tasks[g].pc \in {"none", "done"}
    /\ ~asr_pipeline.recognizer

WarmStartReached ==
    /\ session = "Listening"
    /\ asr_pipeline.model_dir
    /\ asr_pipeline.recognizer

\* ------------------------------------------------------------------------
\* Properties of the hotkey registration (RegSpec)
\* ------------------------------------------------------------------------
\* No register, reregister or unregister call is in progress.
RegQuiet == \A c \in Callers : reg[c].pc = "idle"

\* C17: after any sequence of register, reregister and unregister calls,
\* concurrent ones included, at most one listener thread is running, no
\* listener was started while the prior one was still running, and once the
\* calls have returned CURRENT_HOTKEY is Some exactly when a listener runs.
C17_OneListenerMatchesCell ==
    /\ Cardinality(threads) <= 1
    /\ ~overlap
    /\ RegQuiet => ((current_hotkey # NoShortcut) <=> (threads # {}))

\* A second registration has replaced the first listener, one after the other.
ReplacedListenerReached ==
    /\ RegQuiet
    /\ reg_calls >= 2
    /\ current_hotkey # NoShortcut
    /\ Cardinality(threads) = 1
    /\ ~overlap
    /\ spawned >= 2

\* ------------------------------------------------------------------------
\* Properties of the download worker and the manifest (DownloadSpec)
\* ------------------------------------------------------------------------
Downloading == {n \in AssetNames : assets[n].status = "Downloading"}

\* C18: the worker takes the jobs in the order they were queued, one at a
\* time; when it has moved on from a job the job's asset had become
\* Installed or Error (or the job named no asset), at most one asset is
\* Downloading at any time, and none is Downloading while the worker waits
\* for its next job.
C18_OneDownloadAtATime ==
    /\ begun \o queue = queued
    /\ Cardinality(Downloading) <= 1
    /\ worker.pc = "downloading" => Downloading \subseteq {worker.name}
    /\ worker.pc = "idle" =>
          /\ Downloading = {}
          /\ finished \in {"Installed", "Error", "none"}

\* The worker is on its second job after a first download ended.
C18_Witness ==
    /\ Len(begun) >= 2
    /\ finished \in {"Installed", "Error"}
    /\ worker.pc = "downloading"
    /\ worker.name # begun[1]
    /\ assets[begun[1]].status # "Downloading"

\* C19: whenever the model-manager lock is released, the manifest file
\* equals the assets in memory, unless the latest save failed.
C19_DiskEqualsMemory == ~save_failed => disk = assets

\* A download ended and the manifest was saved with its outcome.
OutcomeSavedReached ==
    /\ begun # <<>>
    /\ worker.pc = "idle"
    /\ finished = "Installed"
    /\ ~save_failed
    /\ disk = assets

\* ------------------------------------------------------------------------
\* Properties of the catalog merge (MergeSpec)
\* ------------------------------------------------------------------------
\* The built-in asset with the name.
Builtin(name) == default_assets[find_by_name(default_assets, name)]

\* What the merge is to make of a loaded entry.
MergedAsStated(before, after) ==
    IF before.name \notin CatalogNames
    THEN after = before
    ELSE /\ after.name = before.name
         /\ after.source = Builtin(before.name).source
         /\ (after.kind # before.kind \/ after.version # before.version) =>
               before.status \in {"NotInstalled", "Error"}
         /\ before.status = "Error" => after.status = "NotInstalled"
         /\ before.status # "Error" => after.status = before.status
         /\ before.status = "Installed" =>
               after = [before EXCEPT !.source = Builtin(before.name).source]

UnknownEntryKeptReached ==
    /\ merge_pc = "again"
    /\ Len(loaded) = 1
    /\ loaded[1].name \notin CatalogNames
    /\ merged[1] = loaded[1]
    /\ Len(merged) = 3

\* ------------------------------------------------------------------------
\* Properties of the archive download (ArchiveSpec)
\* ------------------------------------------------------------------------
\* The file was downloaded and its size or its checksum is not the expected
\* one.
ArchiveMismatch ==
    /\ parts.archive.pc \in {"verify", "replace", "outcome", "done"}
    /\ parts.archive.size # 0
    /\ \/ /\ parts.archive.expected_size # NoExpectation
          /\ parts.archive.size # parts.archive.expected_size
       \/ /\ parts.archive.expected_checksum # NoExpectation
          /\ parts.archive.checksum # parts.archive.expected_checksum

\* C21: when the downloaded size or checksum differs from the expected one
\* the download fails, nothing is extracted, the destination is as it was
\* and the asset ends in Error; the destination is touched only after both
\* checks passed.
C21_MismatchLeavesDestination ==
    /\ ArchiveMismatch =>
          /\ parts.archive.pc # "replace"
          /\ ~parts.archive.extracted
          /\ parts.archive.destination = parts.archive.initial
          /\ parts.archive.result # "ok"
          /\ parts.archive.pc \in {"outcome", "done"} => parts.archive.result = "err"
          /\ parts.archive.pc = "done" => parts.archive.asset.status = "Error"
    /\ (parts.archive.pc # "idle" /\
        (parts.archive.destination # parts.archive.initial \/ parts.archive.extracted)) =>
          /\ parts.archive.size # 0
          /\ ~ArchiveMismatch

\* A download with the expected size and a wrong checksum ended in Error
\* over an existing destination.
C21_Witness ==
    /\ parts.archive.pc = "done"
    /\ parts.archive.expected_size # NoExpectation
    /\ parts.archive.size = parts.archive.expected_size
    /\ parts.archive.expected_checksum # NoExpectation
    /\ parts.archive.checksum # parts.archive.expected_checksum
    /\ parts.archive.initial = "old"
    /\ parts.archive.destination = "old"
    /\ parts.archive.asset.status = "Error"

\* Both checks passed and the destination was replaced.
DestinationReplacedReached ==
    /\ parts.archive.pc = "done"
    /\ parts.archive.expected_size # NoExpectation
    /\ parts.archive.expected_checksum # NoExpectation
    /\ parts.archive.initial = "old"
    /\ parts.archive.destination = "new"
    /\ parts.archive.asset.status = "Installed"

\* ------------------------------------------------------------------------
\* Properties of the primary asset (PrimarySpec)
\* ------------------------------------------------------------------------
\* The asset of the job is Installed and no other installed asset of its
\* kind is larger.
InstalledAndNoneLarger ==
    LET list == parts.primary.list
        job == parts.primary.job
    IN  /\ parts.primary.pc = "installed"
        /\ list[job].status = "Installed"
        /\ \A j \in 1..Len(list) :
              (j # job /\ list[j].kind = list[job].kind /\ list[j].status = "Installed")
                 => list[j].size_bytes <= list[job].size_bytes

\* C22: after a successful install, primary_asset of the asset's kind is
\* the asset just installed whenever no other installed asset of the kind
\* is larger, in every manifest order and also with an equal size.
C22_PrimaryIsJustInstalled ==
    InstalledAndNoneLarger => parts.primary.found = parts.primary.job

\* The asset just installed is the primary one ahead of a smaller installed
\* asset of its kind that comes later in the manifest.
PrimaryOverSmallerReached ==
    /\ InstalledAndNoneLarger
    /\ parts.primary.found = parts.primary.job
    /\ \E j \in 1..Len(parts.primary.list) :
          /\ j > parts.primary.job
          /\ parts.primary.list[j].kind = parts.primary.list[parts.primary.job].kind
          /\ parts.primary.list[j].status = "Installed"

\* ------------------------------------------------------------------------
\* Properties of the CT2 model directory (Ct2Spec)
\* ------------------------------------------------------------------------
\* What a prepared model root holds.
Ct2RootComplete ==
    /\ \A i \in 1..Len(CoreFiles) : parts.ct2.dir[CoreFiles[i]] = "root"
    /\ \E i \in 1..Len(VocabularyFiles) : parts.ct2.dir[VocabularyFiles[i]] = "root"
    /\ parts.ct2.dir[PREPROCESSOR_CONFIG_FILE] = "root"
    /\ parts.ct2.parses

\* A core file, or every vocabulary file, is nowhere in the directory.
Ct2RequiredMissing ==
    \/ \E i \in 1..Len(CoreFiles) : parts.ct2.initial[CoreFiles[i]] = "none"
    \/ \A i \in 1..Len(VocabularyFiles) : parts.ct2.initial[VocabularyFiles[i]] = "none"

\* C23: a successful prepare_ct2_model_dir leaves model.bin, config.json,
\* tokenizer.json, a vocabulary file and a preprocessor_config.json that
\* parses as JSON at the model root, a core file that was only in a
\* subdirectory having been moved there; the call fails when a required
\* file is nowhere; and a second call on the result of a successful one
\* succeeds and changes nothing.
C23_PreparedRoot ==
    /\ (parts.ct2.pc = "prepared" /\ parts.ct2.ok) => Ct2RootComplete
    /\ (parts.ct2.pc = "prepared" /\ Ct2RequiredMissing) => ~parts.ct2.ok
    /\ (parts.ct2.pc = "again" /\ parts.ct2.previous)
          => /\ parts.ct2.ok
             /\ parts.ct2.dir = parts.ct2.before
             /\ parts.ct2.parses = parts.ct2.before_parses

\* A first call succeeded on a directory whose core files and vocabulary
\* were only in a subdirectory, and a second call succeeded and changed
\* nothing.
Ct2MovedAndRepeatedReached ==
    /\ parts.ct2.pc = "again"
    /\ parts.ct2.previous
    /\ parts.ct2.ok
    /\ parts.ct2.dir = parts.ct2.before
    /\ Ct2RootComplete
    /\ \A i \in 1..Len(CoreFiles) : parts.ct2.initial[CoreFiles[i]] = "nested"
    /\ \A i \in 1..Len(VocabularyFiles) : parts.ct2.initial[VocabularyFiles[i]] # "root"

\* ------------------------------------------------------------------------
\* Properties of the HF-repo download (HfSpec)
\* ------------------------------------------------------------------------
\* The name ends with the characters of suffix.
EndsWith(name, suffix) ==
    /\ Len(name) >= Len(suffix)
    /\ SubSeq(name, Len(name) - Len(suffix) + 1, Len(name)) = suffix

\* The files of the repository have been listed.
HfListed == parts.hf.pc = "listed" \/ (parts.hf.pc = "done" /\ parts.hf.files # <<>>)

\* Whether the listed files hold the name.
HfSelected(name) == \E i \in 1..Len(parts.hf.files) : parts.hf.files[i] = name

\* A pattern **/*.ext matches the name iff the name ends with .ext, at the
\* root or below it.
DoubleStarAsStated(pattern, name) ==
    (Len(pattern) > 2 /\ pattern[1] = "**/" /\ pattern[2] = "*")
        => (glob_match(pattern, name) <=> EndsWith(name, SubSeq(pattern, 3, Len(pattern))))

HfExcludedReached ==
    /\ parts.hf.result = "ok"
    /\ parts.hf.include = {<<"**/", "*", ".", "o">>}
    /\ parts.hf.exclude = {<<"**/", "*", ".", "i", ".", "o">>}
    /\ \E i \in 1..Len(parts.hf.siblings) :
          parts.hf.siblings[i] = <<"m", ".", "i", ".", "o">>
    /\ parts.hf.destination = {<<"m", ".", "o">>}

\* ------------------------------------------------------------------------
\* Properties of the performance governor (PerfSpec)
\* ------------------------------------------------------------------------
\* The step appends exactly the event and nothing else.
PerfEmits(emitted) == parts'.perf.events = Append(parts.perf.events, emitted)

\* The performance events alternate, starting with a warning.
PerfEventsAlternate ==
    \A i \in 1..Len(parts.perf.events) :
       parts.perf.events[i] = IF i % 2 = 1 THEN "performance-warning"
                              ELSE "performance-recovered"

\* C25: performance mode is entered, with exactly one performance-warning,
\* when two finalizations in a row took more than 2 s with the average CPU
\* at or above 75 %; it is left, with exactly one performance-recovered,
\* only when the CPU drops below 75 % or a finalization is not slow; the
\* two events alternate, starting with a warning.
PerfStepAsStated ==
    /\ (parts'.perf.op = "update_metrics" /\ parts'.perf.samples > parts.perf.samples
          /\ ~parts.perf.performance_mode /\ parts.perf.slow_run >= 1
          /\ is_slow_at_or_above(parts'.perf.last_latency, parts'.perf.average_cpu))
          => (parts'.perf.performance_mode /\ PerfEmits("performance-warning"))
    /\ (~parts.perf.performance_mode /\ parts'.perf.performance_mode)
          => /\ PerfEmits("performance-warning")
             /\ parts'.perf.op = "update_metrics"
             /\ parts.perf.slow_run >= 1
             /\ is_slow_at_or_above(parts'.perf.last_latency, parts'.perf.average_cpu)
    /\ (parts.perf.performance_mode /\ ~parts'.perf.performance_mode)
          => /\ PerfEmits("performance-recovered")
             /\ \/ parts'.perf.average_cpu < HIGH_CPU
                \/ /\ parts'.perf.op = "update_metrics"
                   /\ ~is_slow_at_or_above(parts'.perf.last_latency,
                                           parts'.perf.average_cpu)
    /\ (parts.perf.performance_mode = parts'.perf.performance_mode)
          => parts'.perf.events = parts.perf.events
    /\ PerfEventsAlternate'

C25_GovernorAsStated == [][PerfStepAsStated]_vars

\* The mode was entered and left twice: two warnings and two recoveries.
PerfTwoRoundsReached ==
    /\ Len(parts.perf.events) = 4
    /\ PerfEventsAlternate
    /\ ~parts.perf.performance_mode

\* ------------------------------------------------------------------------
\* Properties of the VAD over time (VadSpec)
\* ------------------------------------------------------------------------
\* The last step evaluated a frame without speech.
VadNonSpeech == parts.vad.op = "evaluate" /\ ~parts.vad.speech

\* Less than the current hangover has elapsed since the time `at`.
VadWithin(at) == at # None /\ parts.vad.now - at < parts.vad.hangover

\* Once a frame without speech was Inactive, frames stay Inactive until the
\* next speech frame, and the first frame after a reset, if without speech,
\* is Inactive.
VadStaysInactive ==
    VadNonSpeech =>
        /\ parts.vad.met.was_inactive => parts.vad.decision = "Inactive"
        /\ parts.vad.met.first => parts.vad.decision = "Inactive"

\* C26 as stated: a frame without speech is Active iff a speech frame was
\* seen since the last reset and less than the current hangover has elapsed
\* since the most recent one; Inactive lasts until the next speech frame;
\* after reset() the next frame without speech is Inactive.
C26_AsStated ==
    /\ VadNonSpeech =>
          (parts.vad.decision = "Active" <=> VadWithin(parts.vad.met.speech_at))
    /\ VadStaysInactive

\* C26 amended: a frame without speech is Active iff a speech frame was seen
\* since the last reset and since the last frame reported Inactive, and less
\* than the current hangover has elapsed since the most recent one; Inactive
\* lasts until the next speech frame; after reset() the next frame without
\* speech is Inactive.
C26_HangoverSinceInactive ==
    /\ VadNonSpeech =>
          (parts.vad.decision = "Active" <=> VadWithin(parts.vad.met.fresh_at))
    /\ VadStaysInactive

\* After a frame was reported Inactive the hangover was made longer, and a
\* frame without speech, within the longer hangover of the last speech
\* frame, is Inactive.
C26_Witness ==
    /\ VadNonSpeech
    /\ parts.vad.met.was_inactive
    /\ VadWithin(parts.vad.met.speech_at)
    /\ parts.vad.decision = "Inactive"

\* A frame without speech is Active within the hangover of a speech frame.
VadHangoverActiveReached ==
    /\ VadNonSpeech
    /\ parts.vad.decision = "Active"
    /\ parts.vad.now > parts.vad.met.speech_at

\* ------------------------------------------------------------------------
\* Properties of the audio channels (AudioSpec)
\* ------------------------------------------------------------------------
\* The frames received are in the order of their emission.
ReceivedInOrder ==
    \A i, j \in 1..Len(parts.audio.received) :
       i < j => parts.audio.received[i] < parts.audio.received[j]

\* C27: with synthetic frames and with real capture, a full subscriber
\* channel never makes the capture callback or the forwarding worker wait:
\* the frame is dropped and the worker goes on; frames that are delivered
\* arrive in the order of their emission.
C27_NeverBlocked ==
    /\ parts.audio.worker # "send"
    /\ ReceivedInOrder

\* With synthetic frames a frame was dropped at the full subscriber channel,
\* the worker went on, and a later frame was delivered.
SyntheticDropReached ==
    /\ parts.audio.synthetic
    /\ parts.audio.worker = "loop"
    /\ \E d \in parts.audio.dropped :
          \E i \in 1..Len(parts.audio.received) : parts.audio.received[i] > d

\* With real capture the callback dropped a frame at the full capture
\* channel while the worker was waiting in its send.
CaptureDropWhileSendingReached ==
    /\ ~parts.audio.synthetic
    /\ parts.audio.worker = "send"
    /\ parts.audio.dropped # {}
    /\ ReceivedInOrder

\* ------------------------------------------------------------------------
\* Properties of the settings migration (SettingsSpec)
\* ------------------------------------------------------------------------
\* C28: migration is idempotent and round-trips: every migration after the
\* first, whether of the migrated settings in memory or of what was
\* serialized and parsed again, gives what the first one gave, and after
\* the first migration the legacy field is absent, in memory and in what is
\* stored.
C28_MigrationIdempotent ==
    /\ \A i \in 1..Len(parts.settings.passes) :
          /\ parts.settings.passes[i] = parts.settings.passes[1]
          /\ parts.settings.passes[i].legacy_asr_backend = Absent
    /\ (parts.settings.pc # "idle" /\ parts.settings.written)
          => /\ parts.settings.doc.asrBackend = Absent
             /\ parts.settings.doc = serialize_frontend(parts.settings.passes[1])

\* Stored settings with a legacy backend and legacy hotkeys were migrated,
\* written, loaded again and migrated to the same settings.
C28_Witness ==
    /\ parts.settings.pc = "migrated"
    /\ parts.settings.written
    /\ Len(parts.settings.passes) >= 2
    /\ parts.settings.linux
    /\ parts.settings.passes[1].asr_family = "whisper"
    /\ parts.settings.passes[1].whisper_backend = "onnx"
    /\ parts.settings.passes[1].push_to_talk_hotkey = "RightAlt"
    /\ parts.settings.passes[1].whisper_model_language = "multi"
    /\ parts.settings.passes[2] = parts.settings.passes[1]

\* ------------------------------------------------------------------------
\* Properties of the trim state beside the ring (TrimSpec)
\* ------------------------------------------------------------------------
\* The position, if any, lies between lo and hi.
TrimWithin(position, lo, hi) == position # None => (lo <= position /\ position <= hi)

\* C29: at finalize (here: of a snapshot that is not empty) the trim
\* counters and the snapshot describe the same frames: buffer_start plus the
\* length of the snapshot is total_samples, and first_active and last_active
\* lie between buffer_start and total_samples, however process_frame and
\* set_listening interleave.
C29_TrimMatchesSnapshot ==
    (parts.trim.ctl # "off" /\ parts.trim.fin.ran /\ parts.trim.fin.snapshot_len > 0)
        => LET t == parts.trim.fin.trim
           IN  /\ t.buffer_start + parts.trim.fin.snapshot_len = t.total_samples
               /\ TrimWithin(t.first_active, t.buffer_start, t.total_samples)
               /\ TrimWithin(t.last_active, t.buffer_start, t.total_samples)

\* A finalize after a drop from the ring at which the counters and the
\* snapshot agree.
TrimAgreesAfterDropReached ==
    /\ parts.trim.ctl # "off"
    /\ parts.trim.fin.ran
    /\ parts.trim.fin.trim.buffer_start > 0
    /\ parts.trim.fin.trim.buffer_start + parts.trim.fin.snapshot_len
          = parts.trim.fin.trim.total_samples

\* C30: in the trim state, if first_active is Some then last_active is Some
\* and not before it; active_samples is a multiple of the frame length and
\* at most total_samples; and buffer_start is at most total_samples.
C30_TrimStateInvariant ==
    parts.trim.ctl # "off" =>
        LET t == parts.trim.vad_trim
        IN  /\ t.first_active # None =>
                  (t.last_active # None /\ t.last_active >= t.first_active)
            /\ t.active_samples % parts.trim.frame_len = 0
            /\ t.active_samples <= t.total_samples
            /\ t.buffer_start <= t.total_samples

\* The counters of the trim state other than buffer_start are as C30 says.
TrimActiveCounters ==
    parts.trim.ctl # "off" =>
        LET t == parts.trim.vad_trim
        IN  /\ t.first_active # None =>
                  (t.last_active # None /\ t.last_active >= t.first_active)
            /\ t.active_samples % parts.trim.frame_len = 0
            /\ t.active_samples <= t.total_samples

\* Active frames were recorded and a drop was noted.
TrimDropNotedReached ==
    /\ parts.trim.ctl # "off"
    /\ parts.trim.vad_trim.buffer_start > 0
    /\ parts.trim.vad_trim.active_samples > 0
    /\ parts.trim.vad_trim.buffer_start <= parts.trim.vad_trim.total_samples

\* ------------------------------------------------------------------------
\* Properties of the held modifiers with several keyboards (HotkeySpec)
\* ------------------------------------------------------------------------
\* A ctrl key is physically down on some attached keyboard.
CtrlDown == \E k \in devices, key \in CtrlKeys : <<k, key>> \in keys_down

\* C31: with several keyboards, the modifier counts as held exactly when one
\* of its keys is down on at least one keyboard: a key event that finds the
\* held set in agreement with the keyboards leaves it in agreement, so that
\* releasing the key on one keyboard while it is down on another leaves the
\* modifier held.
C31_HeldIffDownSomewhere ==
    [][ (event'.kind = "key" /\ (held_ctrl # {} <=> CtrlDown))
            => (held_ctrl' # {} <=> CtrlDown')
      ]_vars

\* The same ctrl key went down on two keyboards and the held set has it.
CtrlOnTwoKeyboardsReached ==
    /\ \E key \in CtrlKeys : \A k \in Keyboards : <<k, key>> \in keys_down
    /\ devices = Keyboards
    /\ held_ctrl # {}

\* ------------------------------------------------------------------------
\* Properties of the warmup task waiting for its model (EnsureFairSpec)
\* ------------------------------------------------------------------------
\* C32: a warmup task that remains the latest generation ends with the
\* warmup state Ready or Error; the state does not stay Warming forever.
C32_WarmupTerminates ==
    <>(~parts.ensure.current \/ parts.ensure.warmup \in {"Ready", "Error"})

\* C39: an asset whose status is Downloading, also one saved as Downloading
\* by an interrupted run, does not stay Downloading forever: a download of
\* it is accepted and ends.
C39_DownloadingEnds ==
    (parts.ensure.status = "Downloading") ~> (parts.ensure.status # "Downloading")

\* ------------------------------------------------------------------------
\* Properties of the hangover under reconfiguration (PerfVadSpec)
\* ------------------------------------------------------------------------
\* C33: in performance mode the hangover of the detector is at most 200 ms,
\* and outside performance mode it equals the configured default.
C33_HangoverFollowsMode ==
    parts.perf.op # "idle" =>
        IF parts.perf.performance_mode
        THEN parts.perf.hangover <= PERFORMANCE_HANGOVER
        ELSE parts.perf.hangover = parts.perf.default_hangover

\* The second half of C33 alone.
HangoverIsDefaultOutsideMode ==
    (parts.perf.op # "idle" /\ ~parts.perf.performance_mode) =>
        parts.perf.hangover = parts.perf.default_hangover

\* ------------------------------------------------------------------------
\* Properties of the progress events of one download (ThrottleSpec)
\* ------------------------------------------------------------------------
\* C34 as stated: at least 150 ms elapse between any two consecutive
\* progress events of one download.
C34_AsStated ==
    parts.throttle.emitted >= 2 =>
        parts.throttle.last.at - parts.throttle.prev.at >= EMIT_INTERVAL

\* C34: between two consecutive progress events of one download at least
\* 150 ms elapse, unless the later event is in a higher 1 % bucket than the
\* earlier or reports the download complete.
C34_ThrottledPerBucket ==
    parts.throttle.emitted >= 2 =>
        \/ parts.throttle.last.at - parts.throttle.prev.at >= EMIT_INTERVAL
        \/ parts.throttle.last.bucket > parts.throttle.prev.bucket
        \/ parts.throttle.last.complete

\* Chunks were passed over and two events in the same bucket are 150 ms
\* apart or more.
ThrottledByTimeReached ==
    /\ parts.throttle.emitted >= 2
    /\ parts.throttle.suppressed >= 1
    /\ parts.throttle.last.bucket = parts.throttle.prev.bucket
    /\ ~parts.throttle.last.complete
    /\ parts.throttle.last.at - parts.throttle.prev.at >= EMIT_INTERVAL

\* ------------------------------------------------------------------------
\* Properties of the fallback of a warmup task (WarmupSpec)
\* ------------------------------------------------------------------------
\* C35: a warmup task that is no longer the latest generation never writes
\* the frontend settings and never reloads the pipeline: the fallback to
\* the last known-good selection is applied by the latest task only.
C35_FallbackByLatestOnly ==
    [][ \A g \in 1..MaxGenerations :
           (warm_tasks[g].pc = "fallback" /\ warm_tasks'[g].pc = "check_target")
               => is_current(g)
      ]_vars

\* A superseded task has replaced the selection the user saved after it
\* started, and the pipeline with it.
StaleFallbackOverwroteReached ==
    /\ asr_warmup_generation = 2
    /\ warm_tasks[1].pc = "check_target"
    /\ selected = warm_tasks[1].selection
    /\ asr_pipeline.selection = selected

\* ------------------------------------------------------------------------
\* Properties of the events of one finalization (PipelineSpec)
\* ------------------------------------------------------------------------
SkippedEvents(events) ==
    {i \in 1..Len(events) : events[i].name = "transcription-skipped"}

ErrorEvents(events) ==
    {i \in 1..Len(events) : events[i].name = "transcription-error"}

\* C37: one finalization emits at most one transcription-skipped event and
\* never both a transcription-skipped and a transcription-error event; a
\* set_listening(false) on a pipeline that is not listening emits no event
\* and leaves the ring, the VAD and the trim state unchanged.
C37_OneOutcomeEvent ==
    /\ [](fin.ran =>
            /\ Cardinality(SkippedEvents(fin.events)) <= 1
            /\ SkippedEvents(fin.events) = {} \/ ErrorEvents(fin.events) = {}
            /\ ~fin.was_listening => fin.events = <<>>)
    /\ [][ (~listening /\ fin'.ran /\ ~fin'.was_listening) =>
              /\ buffer' = buffer
              /\ vad_trim' = vad_trim
              /\ last_activation' = last_activation
         ]_vars

\* The second half of C37 and the first for every finalization but that of
\* an empty transcript.
OneOutcomeEventUnlessEmptyTranscript ==
    fin.ran =>
        /\ (fin.was_listening /\ fin.asr_called
              /\ Skipped("empty-transcript") \in {fin.events[i] : i \in 1..Len(fin.events)})
           \/ /\ Cardinality(SkippedEvents(fin.events)) <= 1
              /\ SkippedEvents(fin.events) = {} \/ ErrorEvents(fin.events) = {}
        /\ ~fin.was_listening => fin.events = <<>>

\* The recognizer answered an empty transcript: two transcription-skipped
\* events and one transcription-error.
EmptyTranscriptEventsReached ==
    /\ fin.ran
    /\ fin.was_listening
    /\ Cardinality(SkippedEvents(fin.events)) = 2
    /\ Cardinality(ErrorEvents(fin.events)) = 1

\* ------------------------------------------------------------------------
\* Properties of an uninstall during a download (DownloadSpec)
\* ------------------------------------------------------------------------
Pending(name) == \E i \in 1..Len(queue) : queue[i] = name

\* C38: once an asset was uninstalled while its download runs, its status
\* stays NotInstalled until a new download of it is queued: the callbacks
\* of the running download do not turn it back to Downloading or Installed.
C38_UninstalledStaysNotInstalled ==
    [][ \A name \in AssetNames :
           ( /\ worker.pc = "downloading"
             /\ worker.name = name
             /\ assets[name].status = "NotInstalled"
             /\ ~Pending(name)
             /\ queue' = queue )
           => assets'[name].status = "NotInstalled"
      ]_vars

\* ------------------------------------------------------------------------
\* Properties of a session across a pipeline change (SessionReloadSpec)
\* ------------------------------------------------------------------------
IsOutcome(e) ==
    e.name \in {"transcription-output", "transcription-skipped", "transcription-error"}

\* C36: the finalization of a session that reached Listening (the session
\* is Processing when the task of complete_session finalizes) emits a
\* transcription-output, transcription-skipped or transcription-error event
\* before the task sets the hud state to idle.
C36_SessionEndsWithOutcome ==
    [][ (tasks'.finalize < tasks.finalize /\ session = "Processing") =>
           \E i \in 1..Len(fin'.events) : IsOutcome(fin'.events[i])
      ]_vars

\* ------------------------------------------------------------------------
\* Properties of dropping the pipeline (TeardownFairSpec)
\* ------------------------------------------------------------------------
\* C40: dropping the pipeline ends and neither deadlocks nor panics: the
\* destructor is never run by the frame worker, the join of the frame
\* worker returns, and a caller waiting for the pipeline lock gets it.
C40_TeardownTerminates ==
    /\ [](parts.teardown.destructor # "worker")
    /\ parts.teardown.joining ~> ~parts.teardown.joining
    /\ parts.teardown.waiting ~> ~parts.teardown.waiting

\* The frame worker gave up the last reference and ran the destructor that
\* joins it.
WorkerRanDestructorReached ==
    /\ parts.teardown.destructor = "worker"
    /\ parts.teardown.worker \in SelfJoinOutcomes

\* With frames arriving the join returns on another thread.
JoinedByOtherThreadReached ==
    /\ parts.teardown.destructor \in {"slot", "clone"}
    /\ ~parts.teardown.joining
    /\ parts.teardown.worker = "exited"

\* The destructor is never run by the frame worker.
NeverSelfJoin == parts.teardown.destructor # "worker"

\* The join of the frame worker returns.
JoinReturns == parts.teardown.joining ~> ~parts.teardown.joining

====
